---- MODULE Spec2Model ----
(***************************************************************************)
(* ElectricityLCI: the record combination and flow-mapping pipeline of     *)
(* electricitylci/combinator.py (fill_nans, concat_map_upstream_databases, *)
(* concat_clean_upstream_and_plant).                                       *)
(*                                                                         *)
(* A dataframe is a sequence of rows; a row is a function from column      *)
(* names to cell values.  Text cells are sequences of one-character        *)
(* strings, so that str.lower(), str.rstrip(), str.upper() and             *)
(* str.contains() are computed character by character.  A float("nan")     *)
(* cell is NaN in a text column and NaNNum in a numeric column.            *)
(***************************************************************************)
EXTENDS Integers, Sequences, FiniteSets, TLC

\* ------------------------------------------------------------------------
\* Bounds of the model
\* ------------------------------------------------------------------------
MaxRows == 2      \* rows over the two upstream tables given to the mapper
MaxMap == 2       \* entries of the flow mapping table
MaxFillRows == 3  \* rows of the table given to fill_nans
MaxCombRows == 3  \* rows over the plant and upstream tables given to the combiner
MaxFuelRows == 3  \* rows over the generation and upstream tables given to add_fuel_inputs
MaxProcs == 2     \* process dicts given to one call of the serializer

\* ------------------------------------------------------------------------
\* Cells and text
\* ------------------------------------------------------------------------
NaN == <<"NaN">>
NaNNum == -1

isnull(v) == v = NaN
notnull(v) == v # NaN

\* code-point order of the characters that occur in the model
Alphabet ==
    << " ", "/", "2", "4", "<", ">",
       "A", "B", "C", "D", "E", "H", "I", "L", "M", "N", "O", "P", "R", "S",
       "T", "U", "X",
       "a", "b", "c", "d", "e", "g", "h", "i", "k", "l", "m", "n", "o", "p",
       "r", "s", "t", "u", "w", "x" >>

CharOrd(c) == CHOOSE i \in 1..Len(Alphabet) : Alphabet[i] = c

LowerOf ==
    [c \in {"A", "B", "C", "D", "E", "H", "I", "L", "M", "N", "O", "P", "R",
            "S", "T", "U", "X"} |->
        CASE c = "A" -> "a" [] c = "B" -> "b" [] c = "C" -> "c"
          [] c = "D" -> "d" [] c = "E" -> "e" [] c = "H" -> "h"
          [] c = "I" -> "i" [] c = "L" -> "l" [] c = "M" -> "m"
          [] c = "N" -> "n" [] c = "O" -> "o" [] c = "P" -> "p"
          [] c = "R" -> "r" [] c = "S" -> "s" [] c = "T" -> "t"
          [] c = "U" -> "u" [] c = "X" -> "x"]

UpperOf ==
    [c \in {"a", "b", "c", "d", "e", "h", "i", "l", "m", "n", "o", "p", "r",
            "s", "t", "u", "x"} |->
        CHOOSE u \in DOMAIN LowerOf : LowerOf[u] = c]

\* Series.str.lower(): NaN stays NaN
str_lower(s) ==
    IF isnull(s) THEN NaN
    ELSE [i \in 1..Len(s) |->
            IF s[i] \in DOMAIN LowerOf THEN LowerOf[s[i]] ELSE s[i]]

\* Series.str.upper(): NaN stays NaN
str_upper(s) ==
    IF isnull(s) THEN NaN
    ELSE [i \in 1..Len(s) |->
            IF s[i] \in DOMAIN UpperOf THEN UpperOf[s[i]] ELSE s[i]]

\* Series.str.rstrip(): trailing whitespace removed, NaN stays NaN
RECURSIVE str_rstrip(_)
str_rstrip(s) ==
    IF isnull(s) THEN NaN
    ELSE IF s # <<>> /\ s[Len(s)] = " " THEN str_rstrip(SubSeq(s, 1, Len(s) - 1))
    ELSE s

\* Series.str.contains(pat) for a literal pattern
str_contains(s, pat) ==
    \E i \in 1..Len(s) :
        i + Len(pat) - 1 <= Len(s) /\ SubSeq(s, i, i + Len(pat) - 1) = pat

\* Python's order on str: lexicographic by code point
RECURSIVE StrLess(_, _)
StrLess(a, b) ==
    IF b = <<>> THEN FALSE
    ELSE IF a = <<>> THEN TRUE
    ELSE IF a[1] # b[1] THEN CharOrd(a[1]) < CharOrd(b[1])
    ELSE StrLess(Tail(a), Tail(b))

\* ------------------------------------------------------------------------
\* Generic dataframe helpers
\* ------------------------------------------------------------------------
RECURSIVE SelectRows(_, _)
SelectRows(df, keep) ==
    \* df.loc[mask]: the rows at the positions in keep, in table order
    IF df = <<>> THEN <<>>
    ELSE LET n == Len(df)
             front == SelectRows(SubSeq(df, 1, n - 1), keep)
         IN IF n \in keep THEN Append(front, df[n]) ELSE front

RECURSIVE SumOver(_, _)
SumOver(f, S) ==
    IF S = {} THEN 0
    ELSE LET x == CHOOSE y \in S : TRUE IN f[x] + SumOver(f, S \ {x})

RECURSIVE Gcd(_, _)
Gcd(a, b) == IF b = 0 THEN a ELSE Gcd(b, a % b)

\* the mean of a group as a fraction in lowest terms <<numerator, denominator>>
Mean(f, S) ==
    LET s == SumOver(f, S)
        n == Cardinality(S)
        g == Gcd(s, n)
    IN <<s \div g, n \div g>>

\* ------------------------------------------------------------------------
\* Text values of the model
\* ------------------------------------------------------------------------
CO2 == <<"C", "O", "2">>
co2_sp == <<"c", "o", "2", " ">>
co2 == <<"c", "o", "2">>
CH4 == <<"C", "H", "4">>
ch4 == <<"c", "h", "4">>
air == <<"a", "i", "r">>
Air == <<"A", "i", "r">>
water == <<"w", "a", "t", "e", "r">>
ground == <<"g", "r", "o", "u", "n", "d">>
soil == <<"s", "o", "i", "l">>
resource == <<"r", "e", "s", "o", "u", "r", "c", "e">>
kg == <<"k", "g">>
blank == <<"<", "b", "l", "a", "n", "k", ">">>
emission == <<"e", "m", "i", "s", "s", "i", "o", "n">>
emission_air == <<"e", "m", "i", "s", "s", "i", "o", "n", "/", "a", "i", "r">>
Emission_Air == <<"E", "m", "i", "s", "s", "i", "o", "n", "/", "A", "i", "r">>
emission_water == <<"e", "m", "i", "s", "s", "i", "o", "n", "/", "w", "a", "t", "e", "r">>
emission_ground == <<"e", "m", "i", "s", "s", "i", "o", "n", "/", "g", "r", "o", "u", "n", "d">>
NETL_emissions ==
    <<"N", "E", "T", "L", " ", "d", "a", "t", "a", "b", "a", "s", "e", "/", "e", "m", "i", "s", "s", "i", "o", "n", "s">>
NETL_resources ==
    <<"N", "E", "T", "L", " ", "d", "a", "t", "a", "b", "a", "s", "e", "/", "r", "e", "s", "o", "u", "r", "c", "e", "s">>
Coal == <<"C", "o", "a", "l">>
COAL == <<"C", "O", "A", "L">>
GAS == <<"G", "A", "S">>
CONSTRUCTION == <<"C", "O", "N", "S", "T", "R", "U", "C", "T", "I", "O", "N">>
MIXED == <<"M", "I", "X", "E", "D">>
Mixed_Fuel_Type == <<"M", "i", "x", "e", "d", " ", "F", "u", "e", "l", " ", "T", "y", "p", "e">>
Extraction == <<"E", "x", "t", "r", "a", "c", "t", "i", "o", "n">>
Power_plant == <<"P", "o", "w", "e", "r", " ", "p", "l", "a", "n", "t">>
Upstream_construction ==
    <<"U", "p", "s", "t", "r", "e", "a", "m", " ", "c", "o", "n", "s", "t", "r", "u", "c", "t", "i", "o", "n">>
Carbon_dioxide == <<"C", "a", "r", "b", "o", "n", " ", "d", "i", "o", "x", "i", "d", "e">>
Methane == <<"M", "e", "t", "h", "a", "n", "e">>
netl == <<"n", "e", "t", "l">>
eia_gen_year == 2016

\* ------------------------------------------------------------------------
\* concat_map_upstream_databases: constants of the function
\* ------------------------------------------------------------------------
compartment_mapping ==
    [c \in {air, water, ground, soil, resource, NETL_emissions, NETL_resources} |->
        CASE c = air -> emission_air
          [] c = water -> emission_water
          [] c = ground -> emission_ground
          [] c = soil -> emission_ground
          [] c = resource -> resource
          [] c = NETL_emissions -> NETL_emissions
          [] c = NETL_resources -> NETL_resources]

\* Series.map(dict): a value that is no key of the dict becomes NaN
MapDict(d, v) == IF v \in DOMAIN d THEN d[v] ELSE NaN

groupby_cols ==
    << "fuel_type", "stage_code", "FlowName", "Compartment", "input",
       "plant_id", "Compartment_path", "Unit", "FlowName_orig",
       "Compartment_path_orig", "Unit_orig" >>

final_columns ==
    { "plant_id", "FuelCategory", "stage_code", "FlowName", "Compartment",
      "Compartment_path", "FlowUUID", "Unit", "ElementaryFlowPrimeContext",
      "FlowAmount", "quantity", "Source", "Year", "input" }

\* ------------------------------------------------------------------------
\* Inputs of concat_map_upstream_databases
\* ------------------------------------------------------------------------
\* a row of an upstream table, as the upstream modules produce it
UpRow(fn, comp, unit, amt, plant) ==
    [fuel_type |-> Coal, stage_code |-> Extraction, FlowName |-> fn,
     Compartment |-> comp, input |-> FALSE, plant_id |-> plant, Unit |-> unit,
     FlowAmount |-> amt, quantity |-> 10 * plant]

Amounts == {1, 2}

UpRows ==
    {UpRow(CO2, air, kg, a, 1) : a \in Amounts}
        \cup {UpRow(co2_sp, Air, kg, a, 1) : a \in Amounts}
        \cup {UpRow(CH4, air, kg, a, 2) : a \in Amounts}
        \cup {UpRow(CO2, air, NaN, 1, 1)}

\* the Compartment_path a table that brings its own column carries
OwnPath(r) == IF r.Compartment = water THEN emission_water ELSE emission_air

WithPath(r) == [c \in DOMAIN r \cup {"Compartment_path"} |->
                    IF c = "Compartment_path" THEN OwnPath(r) ELSE r[c]]

SeqsUpTo(S, n) == UNION {[1..k -> S] : k \in 0..n}

\* a table that brings its own Compartment_path column, or not
UpTable(rows, own) == IF own THEN [i \in 1..Len(rows) |-> WithPath(rows[i])] ELSE rows

\* the tables given as *arg: two tables, each with or without its own
\* Compartment_path column
Args ==
    {<<UpTable(t[1], t[3]), UpTable(t[2], t[4])>> :
        t \in {u \in SeqsUpTo(UpRows, MaxRows) \X SeqsUpTo(UpRows, MaxRows)
                        \X BOOLEAN \X BOOLEAN :
                  /\ Len(u[1]) + Len(u[2]) <= MaxRows
                  /\ (u[1] = <<>> => ~u[3])
                  /\ (u[2] = <<>> => ~u[4])}}

\* entries fedelemflowlist's 'eLCI' flow mapping may hold
MapEntry(sfn, sctx, tfn, uuid, tctx, cf) ==
    [SourceFlowName |-> sfn, SourceFlowContext |-> sctx, TargetFlowName |-> tfn,
     TargetFlowUUID |-> uuid, TargetFlowContext |-> tctx, TargetUnit |-> kg,
     ConversionFactor |-> cf]

MapPool ==
    << MapEntry(CO2, emission_air, Carbon_dioxide, <<"u", "1">>, emission_air, 2),
       MapEntry(co2, emission_air, Carbon_dioxide, <<"u", "1">>, emission_air, 3),
       MapEntry(CH4, Emission_Air, Methane, <<"u", "2">>, emission_air, 2),
       MapEntry(ch4, emission_air, Methane, <<"u", "2">>, resource, 5) >>

FlowMappings ==
    {SelectRows(MapPool, K) : K \in {K \in SUBSET (1..Len(MapPool)) : Cardinality(K) <= MaxMap}}

\* ------------------------------------------------------------------------
\* concat_map_upstream_databases: the steps of the function
\* ------------------------------------------------------------------------
Range(f) == {f[i] : i \in DOMAIN f}

\* a row with the columns in cols set to the values of vals, old or new
SetCols(r, vals) ==
    [c \in DOMAIN r \cup DOMAIN vals |-> IF c \in DOMAIN vals THEN vals[c] ELSE r[c]]

DropCols(r, cols) == [c \in DOMAIN r \ cols |-> r[c]]

RECURSIVE Flatten(_)
Flatten(ss) == IF ss = <<>> THEN <<>> ELSE Head(ss) \o Flatten(Tail(ss))

\* lines 160-167: a table without a Compartment_path column gets one from
\* its Compartment through compartment_mapping (case-sensitive dict lookup)
AddCompartmentPath(df) ==
    [i \in 1..Len(df) |->
        IF "Compartment_path" \in DOMAIN df[i] THEN df[i]
        ELSE SetCols(df[i],
                [c \in {"Compartment_path"} |->
                    MapDict(compartment_mapping, df[i].Compartment)])]

\* lines 159-168
ConcatTables(tables) ==
    Flatten([t \in 1..Len(tables) |-> AddCompartmentPath(tables[t])])

\* line 171: only the source flow name of the mapping is lower-cased
LowerFlowMapping(fm) ==
    [i \in 1..Len(fm) |->
        [fm[i] EXCEPT !.SourceFlowName = str_lower(fm[i].SourceFlowName)]]

\* lines 182-184: .str on a column that holds no string at all (every cell
\* NaN, dtype float64) raises AttributeError
StrAccessorRaises(df) ==
    df # <<>> /\ \A i \in 1..Len(df) : isnull(df[i].Compartment_path)

\* mutant: the _orig columns are copied after the normalization
NormalizeRow_orig_after(r) ==
    SetCols(r,
        [c \in {"FlowName_orig", "Compartment_orig", "Compartment_path_orig",
                "Unit_orig", "FlowName", "Compartment", "Compartment_path", "Unit"} |->
            CASE c = "FlowName_orig" -> str_rstrip(str_lower(r.FlowName))
              [] c = "Compartment_orig" -> str_rstrip(str_lower(r.Compartment))
              [] c = "Compartment_path_orig" -> str_rstrip(str_lower(r.Compartment_path))
              [] c = "Unit_orig" -> IF isnull(r.Unit) THEN blank ELSE r.Unit
              [] c = "FlowName" -> str_rstrip(str_lower(r.FlowName))
              [] c = "Compartment" -> str_rstrip(str_lower(r.Compartment))
              [] c = "Compartment_path" -> str_rstrip(str_lower(r.Compartment_path))
              [] c = "Unit" -> IF isnull(r.Unit) THEN blank ELSE r.Unit])

\* lines 174-184 and 199, for one row
NormalizeRow(r) ==
    SetCols(r,
        [c \in {"FlowName_orig", "Compartment_orig", "Compartment_path_orig",
                "Unit_orig", "FlowName", "Compartment", "Compartment_path", "Unit"} |->
            CASE c = "FlowName_orig" -> r.FlowName
              [] c = "Compartment_orig" -> r.Compartment
              [] c = "Compartment_path_orig" -> r.Compartment_path
              [] c = "Unit_orig" -> r.Unit
              [] c = "FlowName" -> str_rstrip(str_lower(r.FlowName))
              [] c = "Compartment" -> str_rstrip(str_lower(r.Compartment))
              [] c = "Compartment_path" -> str_rstrip(str_lower(r.Compartment_path))
              [] c = "Unit" -> IF isnull(r.Unit) THEN blank ELSE r.Unit])

PrepareForMerge(df) == [i \in 1..Len(df) |-> NormalizeRow(df[i])]

\* order of the cells of one grouping column
CellLess(col, a, b) ==
    IF col = "plant_id" THEN a < b
    ELSE IF col = "input" THEN ~a /\ b
    ELSE StrLess(a, b)

\* order of two group keys: by the grouping columns, left to right
KeyLess(cols, k1, k2) ==
    \E i \in 1..Len(cols) :
        /\ \A j \in 1..(i - 1) : k1[cols[j]] = k2[cols[j]]
        /\ k1[cols[i]] # k2[cols[i]]
        /\ CellLess(cols[i], k1[cols[i]], k2[cols[i]])

RECURSIVE SortKeys(_, _)
SortKeys(cols, S) ==
    IF S = {} THEN <<>>
    ELSE LET m == CHOOSE k \in S : \A o \in S \ {k} : KeyLess(cols, k, o)
         IN <<m>> \o SortKeys(cols, S \ {m})

GroupKey(cols, r) == [c \in Range(cols) |-> r[c]]

\* groupby drops a row that has NaN in any grouping column
HasKey(cols, r) ==
    \A c \in Range(cols) :
        IF c \in {"plant_id", "input"} THEN TRUE ELSE notnull(r[c])

\* the positions of the rows of df that fall in the group of key k
GroupMembers(cols, df, k) ==
    {i \in 1..Len(df) : HasKey(cols, df[i]) /\ GroupKey(cols, df[i]) = k}

\* lines 200-208: groupby(groupby_cols, as_index=False).agg(sum, mean), the
\* groups in sorted key order.  grp is the position of the grouped row, kept
\* as a history column to relate a mapped row to its group.
GroupUpstream(df) ==
    LET keys == {GroupKey(groupby_cols, df[i]) :
                    i \in {j \in 1..Len(df) : HasKey(groupby_cols, df[j])}}
        sorted == SortKeys(groupby_cols, keys)
    IN [g \in 1..Len(sorted) |->
            LET members == GroupMembers(groupby_cols, df, sorted[g])
            IN SetCols(sorted[g],
                  [c \in {"FlowAmount", "quantity", "grp"} |->
                      CASE c = "FlowAmount" ->
                              SumOver([i \in members |-> df[i].FlowAmount], members)
                        [] c = "quantity" ->
                              Mean([i \in members |-> df[i].quantity], members)
                        [] c = "grp" -> g])]

\* line 209
OrigColumns(df) ==
    [i \in 1..Len(df) |->
        [c \in {"FlowName_orig", "Compartment_path_orig", "stage_code"} |-> df[i][c]]]

MappingColumns ==
    { "SourceFlowName", "SourceFlowContext", "TargetFlowName", "TargetFlowUUID",
      "TargetFlowContext", "TargetUnit", "ConversionFactor" }

NullEntry == [c \in MappingColumns |-> IF c = "ConversionFactor" THEN NaNNum ELSE NaN]

\* mutant: the join compares the flow name only
JoinMatches_name_only(r, fm) ==
    SelectRows(fm, {i \in 1..Len(fm) : r.FlowName = fm[i].SourceFlowName})

\* the mapping entries a grouped row is joined to, in mapping order
JoinMatches(r, fm) ==
    SelectRows(fm, {i \in 1..Len(fm) :
                        /\ r.FlowName = fm[i].SourceFlowName
                        /\ r.Compartment_path = fm[i].SourceFlowContext})

\* lines 219-224: drop FlowName, Compartment, Unit and rename the target
\* columns to them
RenameMapped(r, e) ==
    SetCols(DropCols(r, {"FlowName", "Compartment", "Unit"}),
        [c \in {"SourceFlowName", "SourceFlowContext", "FlowName", "FlowUUID",
                "Compartment", "Unit", "ConversionFactor"} |->
            CASE c = "SourceFlowName" -> e.SourceFlowName
              [] c = "SourceFlowContext" -> e.SourceFlowContext
              [] c = "FlowName" -> e.TargetFlowName
              [] c = "FlowUUID" -> e.TargetFlowUUID
              [] c = "Compartment" -> e.TargetFlowContext
              [] c = "Unit" -> e.TargetUnit
              [] c = "ConversionFactor" -> e.ConversionFactor])

\* lines 211-224: pd.merge(how="left"): one row per matching entry, a row
\* of NaN target fields when there is none
MergeRow(r, fm) ==
    LET ms == JoinMatches(r, fm)
    IN IF ms = <<>> THEN <<RenameMapped(r, NullEntry)>>
       ELSE [j \in 1..Len(ms) |-> RenameMapped(r, ms[j])]

MergeFlowMapping(grp, fm) == Flatten([i \in 1..Len(grp) |-> MergeRow(grp[i], fm)])

DupSubset(r) == <<r.plant_id, r.FlowName, r.Compartment_path, r.FlowAmount>>

\* lines 225-228: drop_duplicates(subset=...), the first of each kept
DropDuplicates(df) ==
    SelectRows(df, {i \in 1..Len(df) :
                        \A j \in 1..(i - 1) : DupSubset(df[j]) # DupSubset(df[i])})

\* mutant: rows without a mapped flow name are kept
DropNaFlowName_keep(df) == df

\* line 229
DropNaFlowName(df) == SelectRows(df, {i \in 1..Len(df) : notnull(df[i].FlowName)})

\* mutant: the conversion factor is not applied
ConvertRow_unconverted(r) ==
    SetCols(DropCols(r, {"fuel_type"}),
        [c \in {"FuelCategory", "ElementaryFlowPrimeContext", "Source", "Year"} |->
            CASE c = "FuelCategory" -> str_upper(r.fuel_type)
              [] c = "ElementaryFlowPrimeContext" ->
                    IF str_contains(r.Compartment, resource) THEN resource
                    ELSE emission
              [] c = "Source" -> netl
              [] c = "Year" -> eia_gen_year])

\* lines 233-247, for one row
ConvertRow(r) ==
    SetCols(DropCols(r, {"fuel_type"}),
        [c \in {"FlowAmount", "FuelCategory", "ElementaryFlowPrimeContext",
                "Source", "Year"} |->
            CASE c = "FlowAmount" -> r.FlowAmount * r.ConversionFactor
              [] c = "FuelCategory" -> str_upper(r.fuel_type)
              [] c = "ElementaryFlowPrimeContext" ->
                    IF str_contains(r.Compartment, resource) THEN resource
                    ELSE emission
              [] c = "Source" -> netl
              [] c = "Year" -> eia_gen_year])

ApplyConversion(df) == [i \in 1..Len(df) |-> ConvertRow(df[i])]

\* lines 306 and 308: the returned columns (with the history column grp)
FinalColumns(df) ==
    [i \in 1..Len(df) |-> [c \in final_columns \cup {"grp"} |-> df[i][c]]]

\* lines 275-277 and 289
UniqueOrig(df) ==
    {<<df[i].FlowName_orig, df[i].Compartment_path_orig>> :
        i \in {j \in 1..Len(df) :
                  notnull(df[j].FlowName_orig) /\ notnull(df[j].Compartment_path_orig)}}

\* lines 278-288
UniqueMapped(df) ==
    {<<df[i].FlowName_orig, df[i].Compartment_path_orig, df[i].Unit_orig,
       df[i].FlowName, df[i].Compartment, df[i].Unit>> :
        i \in {j \in 1..Len(df) :
                  /\ notnull(df[j].FlowName_orig)
                  /\ notnull(df[j].Compartment_path_orig)
                  /\ notnull(df[j].Unit_orig)
                  /\ notnull(df[j].FlowName)
                  /\ notnull(df[j].Compartment)
                  /\ notnull(df[j].Unit)}}

\* Python's == on tuples: tuples of different lengths are never equal
TupleEq(a, b) == Len(a) = Len(b) /\ \A i \in 1..Len(a) : a[i] = b[i]

\* line 290: unique_orig_set - unique_mapped_set
UnmatchedSet(orig, mapped) == {o \in orig : \A m \in mapped : ~TupleEq(o, m)}

\* Python's order on tuples of str
RECURSIVE TupleLess(_, _)
TupleLess(a, b) ==
    IF b = <<>> THEN FALSE
    ELSE IF a = <<>> THEN TRUE
    ELSE IF a[1] # b[1] THEN StrLess(a[1], b[1])
    ELSE TupleLess(Tail(a), Tail(b))

\* sorted(list(S))
RECURSIVE Sorted(_)
Sorted(S) ==
    IF S = {} THEN <<>>
    ELSE LET m == CHOOSE t \in S : \A o \in S \ {t} : TupleLess(t, o)
         IN <<m>> \o Sorted(S \ {m})

\* ------------------------------------------------------------------------
\* fill_nans(df, key_column, target_columns, dropna)
\* A dataframe is here [columns, rows]; each row carries its index label.
\* ------------------------------------------------------------------------
NumericCols ==
    { "index", "origin", "FacilityID", "eGRID_ID", "plant_id", "Electricity",
      "PercentGenerationfromDesignatedFuelCategory", "Age", "FlowAmount", "Year",
      "quantity", "TemporalCorrelation", "DataCollection",
      "GeographicalCorrelation", "TechnologicalCorrelation", "ReliabilityScore" }

\* the NaN of a column
Null(c) == IF c \in NumericCols THEN NaNNum ELSE NaN

CellNull(r, c) == r[c] = Null(c)

TX == <<"T", "X">>
LA == <<"L", "A">>

\* lines 68-80
default_target_columns ==
    << "Balancing Authority Code", "Balancing Authority Name", "FuelCategory",
       "NERC", "PercentGenerationfromDesignatedFuelCategory", "eGRID_ID",
       "Subregion", "FERC_Region", "EIA_Region", "State", "Electricity" >>

\* eia860_balancing_authority(eia_gen_year).set_index("Plant Id")["State"]
plant_ba_State == [p \in {1} |-> TX]

RECURSIVE SelectSeq2(_, _)
SelectSeq2(xs, S) ==
    \* the elements of xs that are in S, in the order of xs
    IF xs = <<>> THEN <<>>
    ELSE IF Head(xs) \in S THEN <<Head(xs)>> \o SelectSeq2(Tail(xs), S)
    ELSE SelectSeq2(Tail(xs), S)

\* lines 67-86
ConfirmedTarget(df, target_columns) ==
    SelectSeq2(IF target_columns = <<>> THEN default_target_columns ELSE target_columns,
               df.columns)

\* mutant: the last row of each key gives the fill value
KeyDf_last(df, key_column, col) ==
    LET full == {i \in 1..Len(df.rows) :
                    ~CellNull(df.rows[i], key_column) /\ ~CellNull(df.rows[i], col)}
        last == {i \in full :
                    \A j \in full : df.rows[j][key_column] = df.rows[i][key_column] => j <= i}
    IN [k \in {df.rows[i][key_column] : i \in last} |->
            df.rows[CHOOSE i \in last : df.rows[i][key_column] = k][col]]

\* lines 98-103: the value of col in the first row of each key, among the
\* rows that have neither a null key nor a null col
KeyDf(df, key_column, col) ==
    LET full == {i \in 1..Len(df.rows) :
                    ~CellNull(df.rows[i], key_column) /\ ~CellNull(df.rows[i], col)}
        first == {i \in full :
                    \A j \in full : df.rows[j][key_column] = df.rows[i][key_column] => i <= j}
    IN [k \in {df.rows[i][key_column] : i \in first} |->
            df.rows[CHOOSE i \in first : df.rows[i][key_column] = k][col]]

\* mutant: every cell of col gets the value its key maps to
FillColumn_unmasked(df, key_column, col) ==
    LET key_df == KeyDf(df, key_column, col)
    IN [df EXCEPT !.rows =
          [i \in 1..Len(df.rows) |->
              [df.rows[i] EXCEPT ![col] =
                  IF df.rows[i][key_column] \in DOMAIN key_df
                  THEN key_df[df.rows[i][key_column]]
                  ELSE Null(col)]]]

\* lines 104-106: the null cells of col get the value their key maps to
FillColumn(df, key_column, col) ==
    LET key_df == KeyDf(df, key_column, col)
    IN [df EXCEPT !.rows =
          [i \in 1..Len(df.rows) |->
              IF CellNull(df.rows[i], col)
              THEN [df.rows[i] EXCEPT ![col] =
                      IF df.rows[i][key_column] \in DOMAIN key_df
                      THEN key_df[df.rows[i][key_column]]
                      ELSE Null(col)]
              ELSE df.rows[i]]]

\* lines 97-106
RECURSIVE FillColumns(_, _, _)
FillColumns(df, key_column, cols) ==
    IF cols = <<>> THEN df
    ELSE FillColumns(FillColumn(df, key_column, Head(cols)), key_column, Tail(cols))

\* lines 109-110
AddStateColumn(df) ==
    IF "State" \in df.columns THEN df
    ELSE [columns |-> df.columns \cup {"State"},
          rows |-> [i \in 1..Len(df.rows) |->
                      SetCols(df.rows[i], [c \in {"State"} |-> NaN])]]

\* line 111
WithState(df, confirmed_target) ==
    IF "State" \in df.columns THEN confirmed_target
    ELSE Append(confirmed_target, "State")

\* lines 112-114: the null cells of State get the state of the plant eGRID_ID
FillState(df) ==
    [df EXCEPT !.rows =
        [i \in 1..Len(df.rows) |->
            IF CellNull(df.rows[i], "State")
            THEN [df.rows[i] EXCEPT !.State = MapDict(plant_ba_State, df.rows[i].eGRID_ID)]
            ELSE df.rows[i]]]

\* line 116
DropNaRows(df, subset) ==
    [df EXCEPT !.rows =
        SelectRows(df.rows, {i \in 1..Len(df.rows) :
                                \A c \in Range(subset) : ~CellNull(df.rows[i], c)})]

\* ------------------------------------------------------------------------
\* Inputs of fill_nans
\* ------------------------------------------------------------------------
FillRow(fac, egrid, fuel, state) ==
    [FacilityID |-> fac, eGRID_ID |-> egrid, FuelCategory |-> fuel, State |-> state]

FillRows ==
    { FillRow(1, 1, COAL, LA), FillRow(1, 1, GAS, NaN), FillRow(1, 1, NaN, NaN),
      FillRow(1, NaNNum, NaN, NaN), FillRow(2, 2, NaN, NaN), FillRow(2, 2, GAS, LA),
      FillRow(NaNNum, 1, COAL, NaN) }

FillColumnSets ==
    {{"eGRID_ID", "FuelCategory"} \cup opt : opt \in SUBSET {"FacilityID", "State"}}

\* the table with the rows rs restricted to the columns cols, indexed 1..n
FillTable(rs, cols) ==
    [columns |-> cols,
     rows |-> [i \in 1..Len(rs) |->
                 [c \in cols \cup {"index"} |-> IF c = "index" THEN i ELSE rs[i][c]]]]

FillTables ==
    {FillTable(rs, cols) : rs \in SeqsUpTo(FillRows, MaxFillRows), cols \in FillColumnSets}

TargetChoices == {<<>>, <<"FuelCategory", "NERC">>}

\* mutant: the rows left incomplete are not dropped
FillNans_nodrop(d, key, targets, drop) ==
    FillState(AddStateColumn(FillColumns(d, key, ConfirmedTarget(d, targets))))

\* lines 65-117: fill_nans as one call, the key column being present
FillNans(d, key, targets, drop) ==
    LET confirmed == ConfirmedTarget(d, targets)
        filled == FillColumns(d, key, confirmed)
        stated == FillState(AddStateColumn(filled))
    IN IF drop THEN DropNaRows(stated, WithState(filled, confirmed)) ELSE stated

\* ------------------------------------------------------------------------
\* concat_clean_upstream_and_plant(pl_df, up_df)
\* ------------------------------------------------------------------------
ERCO == <<"E", "R", "C", "O">>
TRE == <<"T", "R", "E">>
ERCT == <<"E", "R", "C", "T">>
ERCOT_Name == <<"E", "l", "e", "c", "t", "r", "i", "c", " ", "R", "e", "l", "i", "a", "b", "i", "l", "i", "t", "y", " ", "C", "o", "u", "n", "c", "i", "l", " ", "o", "f", " ", "T", "e", "x", "a", "s", ",", " ", "I", "n", "c", ".">>

Percent == "PercentGenerationfromDesignatedFuelCategory"

\* lines 329-334
region_cols ==
    << "NERC", "Balancing Authority Code", "Balancing Authority Name", "Subregion" >>

\* lines 353-358
categories_to_delete ==
    { "plant_id", "FuelCategory_right", "Net Generation (MWh)", "PrimaryFuel_right" }

\* lines 18-37: the balancing authority table read when the module is loaded
ba_codes ==
    [b \in {ERCO} |-> [BA_Name |-> ERCOT_Name, FERC_Region |-> TRE, EIA_Region |-> TX]]

\* Series.map(ba_codes[col])
MapBa(code, col) == IF code \in DOMAIN ba_codes THEN ba_codes[code][col] ELSE NaN

PlantCols ==
    { "eGRID_ID", "stage_code", "FuelCategory", "PrimaryFuel", Percent,
      "Balancing Authority Code", "Balancing Authority Name", "NERC", "Subregion",
      "State", "Electricity" }

UpCols == { "plant_id", "stage_code", "FuelCategory", "Source" }

\* a row of the generation table: plant 1 generates 40 % from its primary
\* fuel category, plant 2 generates 90 % (the column holds the share as a
\* fraction; the model holds it in hundredths)
PlantRow(plant, fuel) ==
    [c \in PlantCols |->
        CASE c = "eGRID_ID" -> plant
          [] c = "stage_code" -> Power_plant
          [] c = "FuelCategory" -> fuel
          [] c = "PrimaryFuel" -> fuel
          [] c = Percent -> IF plant = 1 THEN 40 ELSE 90
          [] c = "Balancing Authority Code" -> ERCO
          [] c = "Balancing Authority Name" -> ERCO
          [] c = "NERC" -> TRE
          [] c = "Subregion" -> ERCT
          [] c = "State" -> TX
          [] c = "Electricity" -> 100]

PlantRows == {PlantRow(plant, fuel) : plant \in {1, 2}, fuel \in {COAL, GAS, CONSTRUCTION, NaN}}

\* a row of the flow-mapped upstream table
UpstreamRow(plant, stage, fuel) ==
    [plant_id |-> plant, stage_code |-> stage, FuelCategory |-> fuel, Source |-> netl]

UpstreamRows ==
    {UpstreamRow(plant, sf[1], sf[2]) :
        plant \in {1, 2},
        sf \in {<<Upstream_construction, CONSTRUCTION>>, <<Extraction, COAL>>,
                <<Power_plant, COAL>>}}

CombInputs ==
    {t \in SeqsUpTo(PlantRows, MaxCombRows) \X SeqsUpTo(UpstreamRows, MaxCombRows) :
        Len(t[1]) + Len(t[2]) <= MaxCombRows}

\* min_plant_percent_generation_from_primary_fuel_category: no cutoff, a
\* cutoff between the two plants, and a cutoff equal to the share of plant 2
Thresholds == {0, 50, 90}

\* line 337: pl_df[["eGRID_ID"] + region_cols].drop_duplicates()
PlantRegions(pl) ==
    LET proj(r) == [c \in {"eGRID_ID"} \cup Range(region_cols) |-> r[c]]
    IN SelectRows([i \in 1..Len(pl) |-> proj(pl[i])],
                  {i \in 1..Len(pl) : \A j \in 1..(i - 1) : proj(pl[j]) # proj(pl[i])})

NullRegion ==
    [c \in {"eGRID_ID"} \cup Range(region_cols) |-> Null(c)]

\* lines 336-341: left join of the upstream rows with the plants' regions.
\* origin is the position of the row in up_df, kept as a history column.
MergeRegions(up, pl) ==
    LET regions == PlantRegions(pl)
        joined(j) ==
            LET ms == SelectRows(regions,
                        {i \in 1..Len(regions) : regions[i].eGRID_ID = up[j].plant_id})
                base == SetCols(up[j], [c \in {"origin"} |-> j])
            IN IF ms = <<>> THEN <<SetCols(base, NullRegion)>>
               ELSE [m \in 1..Len(ms) |-> SetCols(base, ms[m])]
    IN Flatten([j \in 1..Len(up) |-> joined(j)])

\* line 343: pd.concat([pl_df, up_df], ignore_index=True): the union of the
\* columns, NaN where a table lacks a column
ConcatPlantUpstream(pl, up) ==
    LET cols == PlantCols \cup UpCols
        widen(r, i) ==
            [c \in cols \cup {"index", "origin"} |->
                IF c = "index" THEN i
                ELSE IF c \in DOMAIN r THEN r[c]
                ELSE IF c = "origin" THEN 0
                ELSE Null(c)]
        both == pl \o up
    IN [columns |-> cols, rows |-> [i \in 1..Len(both) |-> widen(both[i], i)]]

\* lines 344-352
MapRegionNames(d) ==
    [columns |-> d.columns \cup {"FERC_Region", "EIA_Region"},
     rows |-> [i \in 1..Len(d.rows) |->
        SetCols(d.rows[i],
            [c \in {"Balancing Authority Name", "FERC_Region", "EIA_Region"} |->
                CASE c = "Balancing Authority Name" ->
                        MapBa(d.rows[i]["Balancing Authority Code"], "BA_Name")
                  [] c = "FERC_Region" ->
                        MapBa(d.rows[i]["Balancing Authority Code"], "FERC_Region")
                  [] c = "EIA_Region" ->
                        MapBa(d.rows[i]["Balancing Authority Code"], "EIA_Region")])]]

\* lines 353-364
DeleteAndKey(d) ==
    [columns |-> (d.columns \ categories_to_delete) \cup {"FacilityID"},
     rows |-> [i \in 1..Len(d.rows) |->
        SetCols(DropCols(d.rows[i], categories_to_delete),
                [c \in {"FacilityID"} |-> d.rows[i].eGRID_ID])]]

\* mutant: the fuel category is not nulled
NullFuelCategory_skip(r) == r

\* lines 369-376, for one row
NullFuelCategory(r) ==
    IF r.stage_code # Power_plant THEN [r EXCEPT !.FuelCategory = NaN]
    ELSE IF r.FuelCategory = CONSTRUCTION THEN [r EXCEPT !.FuelCategory = NaN]
    ELSE r

NullFuelCategories(d) ==
    [d EXCEPT !.rows = [i \in 1..Len(d.rows) |-> NullFuelCategory(d.rows[i])]]

\* mutant: a plant at the threshold counts as below it
generation_filter_le(r, threshold) == r[Percent] # NaNNum /\ r[Percent] <= threshold

\* lines 381-384, for one row: NaN compares False
generation_filter(r, threshold) == r[Percent] # NaNNum /\ r[Percent] < threshold

\* lines 385-389
MixedPolicy(d, keep_mixed, threshold) ==
    IF keep_mixed
    THEN [columns |-> d.columns \cup {"PrimaryFuel"},
          rows |-> [i \in 1..Len(d.rows) |->
              IF generation_filter(d.rows[i], threshold)
              THEN SetCols(d.rows[i],
                      [c \in {"FuelCategory", "PrimaryFuel"} |->
                          IF c = "FuelCategory" THEN MIXED ELSE Mixed_Fuel_Type])
              ELSE d.rows[i]]]
    ELSE [d EXCEPT !.rows =
              SelectRows(d.rows, {i \in 1..Len(d.rows) :
                                      ~generation_filter(d.rows[i], threshold)})]

\* ------------------------------------------------------------------------
\* add_fuel_inputs(gen_df, upstream_df, upstream_dict)
\* ------------------------------------------------------------------------
input_text == <<"i", "n", "p", "u", "t">>
eia == <<"e", "i", "a">>
NBSO == <<"N", "B", "S", "O">>
New_Brunswick_System_Operator == <<"N", "e", "w", " ", "B", "r", "u", "n", "s", "w", "i", "c", "k", " ", "S", "y", "s", "t", "e", "m", " ", "O", "p", "e", "r", "a", "t", "o", "r">>
coal_name == <<"c", "o", "a", "l">>
construction_name == <<"c", "o", "n", "s", "t", "r", "u", "c", "t", "i", "o", "n">>

\* lines 443-451
merge_cols ==
    << "Age", "Balancing Authority Code", "Balancing Authority Name",
       "Electricity", "NERC", "Subregion" >>

GenCols ==
    { "eGRID_ID", "FacilityID", "stage_code", "FuelCategory", "Electricity", "Age",
      "Balancing Authority Code", "Balancing Authority Name", "NERC", "Subregion",
      "State", "Compartment", "FlowName", "FlowAmount", "FlowUUID", "Unit", "Year",
      "Source" }

\* a row of the generation table; plant 2 belongs to the New Brunswick
\* System Operator
GenRow(plant, elec, fuel) ==
    [c \in GenCols |->
        CASE c \in {"eGRID_ID", "FacilityID"} -> plant
          [] c = "stage_code" -> Power_plant
          [] c = "FuelCategory" -> fuel
          [] c = "Electricity" -> elec
          [] c = "Age" -> 30
          [] c = "Balancing Authority Code" -> IF plant = 1 THEN ERCO ELSE NBSO
          [] c = "Balancing Authority Name" ->
                IF plant = 1 THEN ERCOT_Name ELSE New_Brunswick_System_Operator
          [] c = "NERC" -> TRE
          [] c = "Subregion" -> ERCT
          [] c = "State" -> TX
          [] c = "Compartment" -> air
          [] c = "FlowName" -> Carbon_dioxide
          [] c = "FlowAmount" -> 1
          [] c = "FlowUUID" -> <<"u", "1">>
          [] c = "Unit" -> kg
          [] c = "Year" -> eia_gen_year
          [] c = "Source" -> netl]

GenRows ==
    {GenRow(1, e, f) : e \in {100, NaNNum}, f \in {COAL, GAS}}
        \cup {GenRow(2, e, COAL) : e \in {100, NaNNum}}

\* a row of the combined upstream table; plant 3 is no plant of GenRows
FuelUpRow(plant, stage) ==
    [plant_id |-> plant, stage_code |-> stage, quantity |-> 10 * plant,
     FuelCategory |-> COAL, Year |-> eia_gen_year]

FuelUpRows ==
    {FuelUpRow(plant, stage) :
        plant \in {1, 2, 3}, stage \in {Extraction, Upstream_construction}}

\* the reference descriptor of an upstream unit process
Descriptor(stage) ==
    [q_reference_name |-> IF stage = Extraction THEN coal_name ELSE construction_name,
     q_reference_id |-> IF stage = Extraction THEN <<"u", "3">> ELSE <<"u", "4">>,
     q_reference_unit |-> kg]

\* upstream_dict, keyed by stage code
UpstreamDicts ==
    {[st \in S |-> Descriptor(st)] :
        S \in {{Extraction}, {Extraction, Upstream_construction}}}

FuelInputs ==
    {t \in SeqsUpTo(GenRows, MaxFuelRows) \X SeqsUpTo(FuelUpRows, MaxFuelRows) :
        Len(t[1]) + Len(t[2]) <= MaxFuelRows}

\* lines 419-421: drop_duplicates(subset=["plant_id", "stage_code",
\* "quantity"]); origin is the position of the row in upstream_df, kept as a
\* history column
UpstreamReduced(up) ==
    LET key(r) == <<r.plant_id, r.stage_code, r.quantity>>
        marked == [i \in 1..Len(up) |-> SetCols(up[i], [c \in {"origin"} |-> i])]
    IN SelectRows(marked, {i \in 1..Len(up) :
                              \A j \in 1..(i - 1) : key(up[j]) # key(up[i])})

\* lines 428-433: expand_fuel_df has the descriptor columns only when some
\* stage code is a key of upstream_dict; without them line 434 raises
\* KeyError
NoDescriptorColumns(reduced, dict) ==
    \A i \in 1..Len(reduced) : reduced[i].stage_code \notin DOMAIN dict

\* lines 422-452, for one row of upstream_reduced
SynthesizeRow(r, dict) ==
    LET has == r.stage_code \in DOMAIN dict
    IN [c \in (GenCols \ Range(merge_cols)) \cup {"origin"} |->
          CASE c = "Compartment" -> input_text
            [] c = "FlowName" -> IF has THEN dict[r.stage_code].q_reference_name ELSE NaN
            [] c = "stage_code" -> r.stage_code
            [] c = "FlowAmount" -> r.quantity
            [] c = "FlowUUID" -> IF has THEN dict[r.stage_code].q_reference_id ELSE NaN
            [] c = "Unit" -> IF has THEN dict[r.stage_code].q_reference_unit ELSE NaN
            [] c \in {"eGRID_ID", "FacilityID"} -> r.plant_id
            [] c = "FuelCategory" -> r.FuelCategory
            [] c = "Year" -> r.Year
            [] c = "origin" -> r.origin
            [] OTHER -> Null(c)]

SynthesizeFuel(reduced, dict) ==
    [i \in 1..Len(reduced) |-> SynthesizeRow(reduced[i], dict)]

\* mutant: the last generation row of each plant gives the plant's metadata
GenDfReduced_last(gen) ==
    LET proj(r) == [c \in Range(merge_cols) \cup {"eGRID_ID"} |-> r[c]]
    IN SelectRows([i \in 1..Len(gen) |-> proj(gen[i])],
                  {i \in 1..Len(gen) :
                      \A j \in (i + 1)..Len(gen) : gen[j].eGRID_ID # gen[i].eGRID_ID})

\* lines 453-455: the first generation row of each plant
GenDfReduced(gen) ==
    LET proj(r) == [c \in Range(merge_cols) \cup {"eGRID_ID"} |-> r[c]]
    IN SelectRows([i \in 1..Len(gen) |-> proj(gen[i])],
                  {i \in 1..Len(gen) :
                      \A j \in 1..(i - 1) : gen[j].eGRID_ID # gen[i].eGRID_ID})

\* lines 457-462: left join on eGRID_ID
MergeGen(fuel, gen) ==
    LET reduced == GenDfReduced(gen)
        nulls == [c \in Range(merge_cols) |-> Null(c)]
        joined(i) ==
            LET ms == SelectRows(reduced,
                        {k \in 1..Len(reduced) : reduced[k].eGRID_ID = fuel[i].eGRID_ID})
            IN IF ms = <<>> THEN <<SetCols(fuel[i], nulls)>>
               ELSE [m \in 1..Len(ms) |-> SetCols(fuel[i], ms[m])]
    IN Flatten([i \in 1..Len(fuel) |-> joined(i)])

\* line 463
DropNoElectricity(fuel) ==
    SelectRows(fuel, {i \in 1..Len(fuel) : ~CellNull(fuel[i], "Electricity")})

ScoreCols ==
    { "Source", "TemporalCorrelation", "DataCollection", "GeographicalCorrelation",
      "TechnologicalCorrelation", "ReliabilityScore", "ElementaryFlowPrimeContext" }

\* electricitylci.generation.add_temporal_correlation_score: the external
\* scorer, which gives a row a score from its Year
add_temporal_correlation_score(r) ==
    SetCols(r, [c \in {"TemporalCorrelation"} |-> IF r.Year = eia_gen_year THEN 1 ELSE 5])

\* lines 471-478: the fuel category of the first generation row of the
\* facility
FuelCatKey(gen, fac) ==
    LET rows == {i \in 1..Len(gen) : gen[i].FacilityID = fac}
    IN IF rows = {} THEN NaN
       ELSE gen[CHOOSE i \in rows : \A j \in rows : i <= j].FuelCategory

\* lines 464-478, for one row
ScoreRow(r, gen) ==
    SetCols(add_temporal_correlation_score(SetCols(r, [c \in {"Source"} |-> eia])),
        [c \in {"DataCollection", "GeographicalCorrelation", "TechnologicalCorrelation",
                "ReliabilityScore", "ElementaryFlowPrimeContext", "FuelCategory"} |->
            CASE c = "DataCollection" -> 5
              [] c = "ElementaryFlowPrimeContext" -> input_text
              [] c = "FuelCategory" -> FuelCatKey(gen, r.FacilityID)
              [] OTHER -> 1])

\* line 479: pd.concat([gen_df, fuel_df], ignore_index=True)
ConcatGenFuel(gen, fuel) ==
    LET cols == GenCols \cup ScoreCols
        widen(r, i) ==
            [c \in cols \cup {"index", "origin"} |->
                IF c = "index" THEN i
                ELSE IF c \in DOMAIN r THEN r[c]
                ELSE IF c = "origin" THEN 0
                ELSE Null(c)]
        both == gen \o fuel
    IN [columns |-> cols, rows |-> [i \in 1..Len(both) |-> widen(both[i], i)]]

\* lines 484-488
ExcludeNBSO(d) ==
    [d EXCEPT !.rows =
        SelectRows(d.rows, {i \in 1..Len(d.rows) :
            d.rows[i]["Balancing Authority Name"] # New_Brunswick_System_Operator})]

\* ------------------------------------------------------------------------
\* olca_jsonld_writer: write(processes, file_path) and its helpers
\* ------------------------------------------------------------------------
\* Python's None where a text is expected; an object that may be None is a
\* sequence of at most one element, None the empty one
NoneText == <<"None">>
None == <<>>

\* str(arg)
Str(v) == IF v = NoneText THEN <<"N", "o", "n", "e">> ELSE v

\* str.strip()
RECURSIVE str_strip(_)
str_strip(s) ==
    IF s # <<>> /\ s[1] = " " THEN str_strip(Tail(s))
    ELSE IF s # <<>> /\ s[Len(s)] = " " THEN str_strip(SubSeq(s, 1, Len(s) - 1))
    ELSE s

\* str.split('/')
RECURSIVE split(_)
split(s) ==
    LET cuts == {i \in 1..Len(s) : s[i] = "/"}
    IN IF cuts = {} THEN <<s>>
       ELSE LET i == CHOOSE k \in cuts : \A m \in cuts : k <= m
            IN <<SubSeq(s, 1, i - 1)>> \o split(SubSeq(s, i + 1, Len(s)))

\* '/'.join(parts)
RECURSIVE join(_)
join(parts) ==
    IF parts = <<>> THEN <<>>
    ELSE IF Len(parts) = 1 THEN parts[1]
    ELSE parts[1] \o <<"/">> \o join(Tail(parts))

\* str(mtype.value) and str(olca.ModelType.PROCESS)
PROCESS == <<"P", "R", "O", "C", "E", "S", "S">>
ModelType_PROCESS == <<"M", "o", "d", "e", "l", "T", "y", "p", "e", ".">> \o PROCESS

\* uuid.uuid3(uuid.NAMESPACE_OID, path): a hash of the path, taken to be
\* free of collisions
uuid3(path) == <<"uuid3:">> \o path

\* mutant: the path is hashed in the letter case it has
uid_cased(args) ==
    uuid3(join([i \in 1..Len(args) |-> str_strip(Str(args[i]))]))

\* lines 120-122: _uid(*args)
uid(args) ==
    uuid3(str_lower(join([i \in 1..Len(args) |-> str_strip(Str(args[i]))])))

MWh == <<"M", "W", "h">>
MJ == <<"M", "J">>
lb == <<"l", "b">>

\* mutant: an unknown unit is taken as kg
unit_default_kg(unit_name) ==
    CASE unit_name = MWh ->
            <<[id |-> "92e3bd49-8ed5-4885-9db6-fc88c7afcfcb", name |-> unit_name]>>
      [] unit_name = MJ ->
            <<[id |-> "52765a6c-3896-43c2-b2f4-c679acf13efe", name |-> unit_name]>>
      [] OTHER ->
            <<[id |-> "20aadc24-a391-41cf-b340-3e4529f44bde", name |-> kg]>>

\* lines 75-87: _unit(unit_name)
unit(unit_name) ==
    CASE unit_name = MWh ->
            <<[id |-> "92e3bd49-8ed5-4885-9db6-fc88c7afcfcb", name |-> unit_name]>>
      [] unit_name = MJ ->
            <<[id |-> "52765a6c-3896-43c2-b2f4-c679acf13efe", name |-> unit_name]>>
      [] unit_name = kg ->
            <<[id |-> "20aadc24-a391-41cf-b340-3e4529f44bde", name |-> unit_name]>>
      [] OTHER -> None

Energy == <<"E", "n", "e", "r", "g", "y">>
Mass == <<"M", "a", "s", "s">>

\* lines 90-104: _flow_property(unit_name)
flow_property(unit_name) ==
    CASE unit_name \in {MWh, MJ} ->
            <<[id |-> "f6811440-ee37-11de-8a39-0800200c9a66", name |-> Energy]>>
      [] unit_name = kg ->
            <<[id |-> "93a60a56-a3c8-11da-a746-0800200b9a66", name |-> Mass]>>
      [] OTHER -> None

\* lines 59-72: _exchange(d, writer, created_ids); internal_id is set by
\* write
exchange(d) ==
    IF d = None THEN None
    ELSE <<[input |-> d[1].input,
            quantitative_reference |-> FALSE,
            avoided_product |-> FALSE,
            amount |-> d[1].amount,
            unit |-> unit(d[1].unit_name),
            flow_property |-> flow_property(d[1].unit_name),
            internal_id |-> 0,
            pos |-> 0]>>

\* mutant: a null entry consumes an identifier
RECURSIVE exchanges_counting_nulls(_, _, _)
exchanges_counting_nulls(es, i, last_id) ==
    IF i > Len(es) THEN <<>>
    ELSE IF exchange(es[i]) = None THEN exchanges_counting_nulls(es, i + 1, last_id + 1)
    ELSE <<[exchange(es[i])[1] EXCEPT !.internal_id = last_id + 1, !.pos = i]>>
            \o exchanges_counting_nulls(es, i + 1, last_id + 1)

\* lines 23-30: the exchanges of a process, from entry i of the list on,
\* last_id identifiers being given already; pos is the position of the
\* entry in the list, kept as a history field
RECURSIVE exchanges(_, _, _)
exchanges(es, i, last_id) ==
    IF i > Len(es) THEN <<>>
    ELSE IF exchange(es[i]) = None THEN exchanges(es, i + 1, last_id)
    ELSE <<[exchange(es[i])[1] EXCEPT !.internal_id = last_id + 1, !.pos = i]>>
            \o exchanges(es, i + 1, last_id + 1)

\* lines 35-38: _category returns None for a path that is no text or blank
NoCategory(path) == path = NoneText \/ str_strip(path) = <<>>

\* lines 42-43: the identifier of the category of the first i segments
CategoryUid(parts, i) == uid(<<PROCESS>> \o SubSeq(parts, 1, i))

\* lines 52-53: olca.ref(olca.Category, uid, name) with its category_path
CategoryRef(parts, i) ==
    IF i = 0 THEN None
    ELSE <<[id |-> CategoryUid(parts, i), name |-> str_strip(parts[i]),
            category_path |-> SubSeq(parts, 1, i)]>>

\* the identifiers of the categories of a path
CategoryUids(path) ==
    IF NoCategory(path) THEN {}
    ELSE {CategoryUid(split(path), i) : i \in 1..Len(split(path))}

CategoryRecord(parts, i) ==
    [type |-> "Category", id |-> CategoryUid(parts, i), name |-> str_strip(parts[i]),
     category |-> CategoryRef(parts, i - 1), exchanges |-> <<>>, src |-> <<>>]

\* mutant: a category is written whether or not it was created already
CategoryRecords_always(path, created) ==
    IF NoCategory(path) THEN <<>>
    ELSE [i \in 1..Len(split(path)) |-> CategoryRecord(split(path), i)]

\* lines 41-51: the Category records _category writes for a path, created
\* being created_ids at the call
CategoryRecords(path, created) ==
    IF NoCategory(path) THEN <<>>
    ELSE LET parts == split(path)
         IN SelectRows([i \in 1..Len(parts) |-> CategoryRecord(parts, i)],
                       {i \in 1..Len(parts) : CategoryUid(parts, i) \notin created})

\* lines 34-56: the reference _category returns
category(path) ==
    IF NoCategory(path) THEN None ELSE CategoryRef(split(path), Len(split(path)))

\* lines 13-31: the records written for one process dict d; src is the
\* dict, kept as a history field
ProcessRecords(d, created) ==
    CategoryRecords(d.category, created)
        \o <<[type |-> "Process",
              id |-> uid(<<ModelType_PROCESS, d.category, d.name>>),
              name |-> d.name,
              category |-> category(d.category),
              exchanges |-> exchanges(d.exchanges, 1, 0),
              src |-> <<d>>]>>

\* the entries of an exchange list
ExchangeDict(in, amount, unit_name) ==
    <<[input |-> in, amount |-> amount, unit_name |-> unit_name]>>

ProcessDict(name, path, es) == [name |-> name, category |-> path, exchanges |-> es]

\* the process dicts given to the serializer: two that differ in letter
\* case only, categories that share a prefix, no category, a blank
\* category, null exchange entries, unknown and missing units
ProcessDicts ==
    { ProcessDict(<<"P">>, <<"A", "/", "B">>,
          <<ExchangeDict(FALSE, 1, kg), None, ExchangeDict(TRUE, 2, lb)>>),
      ProcessDict(<<"p">>, <<"a", "/", "b">>, <<>>),
      ProcessDict(<<"R">>, <<"A", "/", "C">>,
          <<None, ExchangeDict(TRUE, 3, NoneText), ExchangeDict(FALSE, 4, MWh)>>),
      ProcessDict(<<"R">>, NoneText, <<ExchangeDict(TRUE, 5, MJ)>>),
      ProcessDict(<<"P">>, <<" ">>, <<None>>),
      ProcessDict(<<"P", " ">>, <<"A">>,
          <<ExchangeDict(TRUE, 6, lb), ExchangeDict(TRUE, 7, kg)>>) }

\* the values of the dict given to write, in the order of the dict
ProcessLists == SeqsUpTo(ProcessDicts, MaxProcs)

\* ------------------------------------------------------------------------
\* State
\* ------------------------------------------------------------------------
VARIABLES
    pc,                 \* the line the running function has reached
    arg,                \* concat_map_upstream_databases: *arg
    group_name,         \* TRUE when kwargs holds group_name
    fedefl,             \* the table fedefl.get_flowmapping('eLCI') returns
    flow_mapping,       \* local flow_mapping
    upstream_df,        \* local upstream_df
    upstream_df_grp,    \* local upstream_df_grp
    upstream_mapped_df, \* local upstream_mapped_df
    returned,           \* the returned dataframe
    unmatched_list,     \* the returned unmatched_list (diagnostics mode)
    matched_list,       \* the returned matched_list (diagnostics mode)
    df,                 \* fill_nans: df, filled in place
    df_in,              \* fill_nans: df as it was passed (history)
    key_column,         \* fill_nans: key_column
    target_columns,     \* fill_nans: target_columns (<<>> is the default [])
    dropna,             \* fill_nans: dropna
    confirmed_target,   \* fill_nans: local confirmed_target
    col_i,              \* fill_nans: position of the loop of line 97
    pl_df,              \* concat_clean_upstream_and_plant: pl_df
    up_df,              \* concat_clean_upstream_and_plant: up_df as passed
    up_merged,          \* up_df after the merge of line 336
    combined_df,        \* local combined_df
    keep_mixed_plant_category,  \* model_config
    min_plant_percent,  \* model_config: min_plant_percent_generation_from_primary_fuel_category
    gen_df,             \* add_fuel_inputs: gen_df
    upstream_df_fuel,   \* add_fuel_inputs: upstream_df
    upstream_dict,      \* add_fuel_inputs: upstream_dict
    upstream_reduced,   \* add_fuel_inputs: local upstream_reduced
    fuel_df,            \* add_fuel_inputs: local fuel_df
    gen_plus_up_df,     \* add_fuel_inputs: local gen_plus_up_df
    all_process_dicts,  \* write_process_dicts_to_jsonld: the values of all_process_dicts
    proc_i,             \* write: position of the loop of line 12
    written,            \* write: the records given to writer.write, in order
    created_ids,        \* write: created_ids
    olca_dicts,         \* write_process_dicts_to_jsonld: olca_dicts, the value returned
    prev_written        \* the set of records written by the call before (history)

mapvars ==
    << arg, group_name, fedefl, flow_mapping, upstream_df, upstream_df_grp,
       upstream_mapped_df, returned, unmatched_list, matched_list >>

fillvars ==
    << df, df_in, key_column, target_columns, dropna, confirmed_target, col_i >>

combvars ==
    << pl_df, up_df, up_merged, combined_df, keep_mixed_plant_category,
       min_plant_percent >>

fuelvars ==
    << gen_df, upstream_df_fuel, upstream_dict, upstream_reduced, fuel_df,
       gen_plus_up_df >>

servars ==
    << all_process_dicts, proc_i, written, created_ids, olca_dicts, prev_written >>

vars == << pc, mapvars, fillvars, combvars, fuelvars, servars >>

EmptyDf == [columns |-> {}, rows |-> <<>>]

\* the variables of a function that is not running
IdleMap ==
    /\ arg = <<>>
    /\ group_name = FALSE
    /\ fedefl = <<>>
    /\ flow_mapping = <<>>
    /\ upstream_df = <<>>
    /\ upstream_df_grp = <<>>
    /\ upstream_mapped_df = <<>>
    /\ returned = <<>>
    /\ unmatched_list = <<>>
    /\ matched_list = <<>>

IdleFill ==
    /\ df = EmptyDf
    /\ df_in = EmptyDf
    /\ key_column = "FacilityID"
    /\ target_columns = <<>>
    /\ dropna = TRUE
    /\ confirmed_target = <<>>
    /\ col_i = 1

IdleComb ==
    /\ pl_df = <<>>
    /\ up_df = <<>>
    /\ up_merged = <<>>
    /\ combined_df = EmptyDf
    /\ keep_mixed_plant_category = FALSE
    /\ min_plant_percent = 0

IdleFuel ==
    /\ gen_df = <<>>
    /\ upstream_df_fuel = <<>>
    /\ upstream_dict = <<>>
    /\ upstream_reduced = <<>>
    /\ fuel_df = <<>>
    /\ gen_plus_up_df = EmptyDf

IdleSer ==
    /\ all_process_dicts = <<>>
    /\ proc_i = 1
    /\ written = <<>>
    /\ created_ids = {}
    /\ olca_dicts = None
    /\ prev_written = {}

\* ------------------------------------------------------------------------
\* concat_map_upstream_databases(*arg, **kwargs)
\* ------------------------------------------------------------------------
InitMap ==
    /\ pc = "map:start"
    /\ arg \in Args
    /\ group_name \in BOOLEAN
    /\ fedefl \in FlowMappings
    /\ flow_mapping = <<>>
    /\ upstream_df = <<>>
    /\ upstream_df_grp = <<>>
    /\ upstream_mapped_df = <<>>
    /\ returned = <<>>
    /\ unmatched_list = <<>>
    /\ matched_list = <<>>
    /\ IdleFill
    /\ IdleComb
    /\ IdleFuel
    /\ IdleSer

\* lines 159-168
Concat ==
    /\ pc = "map:start"
    /\ upstream_df' = ConcatTables(arg)
    /\ pc' = "map:concat"
    /\ UNCHANGED << arg, group_name, fedefl, flow_mapping, upstream_df_grp,
                    upstream_mapped_df, returned, unmatched_list, matched_list,
                    fillvars, combvars, fuelvars, servars >>

\* lines 170-199
Prepare ==
    /\ pc = "map:concat"
    /\ ~StrAccessorRaises(upstream_df)
    /\ flow_mapping' = LowerFlowMapping(fedefl)
    /\ upstream_df' = PrepareForMerge(upstream_df)
    /\ pc' = "map:prepared"
    /\ UNCHANGED << arg, group_name, fedefl, upstream_df_grp, upstream_mapped_df,
                    returned, unmatched_list, matched_list,
                    fillvars, combvars, fuelvars, servars >>

\* lines 182-184 raise: the function returns nothing
PrepareRaises ==
    /\ pc = "map:concat"
    /\ StrAccessorRaises(upstream_df)
    /\ pc' = "map:raised"
    /\ UNCHANGED << mapvars, fillvars, fuelvars, servars, combvars, fuelvars >>

\* lines 200-209
Group ==
    /\ pc = "map:prepared"
    /\ upstream_df_grp' = GroupUpstream(upstream_df)
    /\ upstream_df' = OrigColumns(upstream_df)
    /\ pc' = "map:grouped"
    /\ UNCHANGED << arg, group_name, fedefl, flow_mapping, upstream_mapped_df,
                    returned, unmatched_list, matched_list,
                    fillvars, combvars, fuelvars, servars >>

\* lines 211-224
Merge ==
    /\ pc = "map:grouped"
    /\ upstream_mapped_df' = MergeFlowMapping(upstream_df_grp, flow_mapping)
    /\ pc' = "map:merged"
    /\ UNCHANGED << arg, group_name, fedefl, flow_mapping, upstream_df,
                    upstream_df_grp, returned, unmatched_list, matched_list,
                    fillvars, combvars, fuelvars, servars >>

\* lines 225-229
Filter ==
    /\ pc = "map:merged"
    /\ upstream_mapped_df' = DropNaFlowName(DropDuplicates(upstream_mapped_df))
    /\ pc' = "map:filtered"
    /\ UNCHANGED << arg, group_name, fedefl, flow_mapping, upstream_df,
                    upstream_df_grp, returned, unmatched_list, matched_list,
                    fillvars, combvars, fuelvars, servars >>

\* lines 232-247
Convert ==
    /\ pc = "map:filtered"
    /\ upstream_mapped_df' = ApplyConversion(upstream_mapped_df)
    /\ pc' = "map:converted"
    /\ UNCHANGED << arg, group_name, fedefl, flow_mapping, upstream_df,
                    upstream_df_grp, returned, unmatched_list, matched_list,
                    fillvars, combvars, fuelvars, servars >>

\* lines 248-309
Return ==
    /\ pc = "map:converted"
    /\ returned' = FinalColumns(upstream_mapped_df)
    /\ IF group_name
       THEN LET unique_orig_set == UniqueOrig(upstream_df)
                unique_mapped_set == UniqueMapped(upstream_mapped_df)
            IN /\ unmatched_list' = Sorted(UnmatchedSet(unique_orig_set, unique_mapped_set))
               /\ matched_list' = Sorted(unique_mapped_set)
       ELSE UNCHANGED << unmatched_list, matched_list >>
    /\ pc' = "map:returned"
    /\ UNCHANGED << arg, group_name, fedefl, flow_mapping, upstream_df,
                    upstream_df_grp, upstream_mapped_df,
                    fillvars, combvars, fuelvars, servars >>

NextMap ==
    \/ Concat
    \/ Prepare
    \/ PrepareRaises
    \/ Group
    \/ Merge
    \/ Filter
    \/ Convert
    \/ Return

SpecMap == InitMap /\ [][NextMap]_vars

\* ------------------------------------------------------------------------
\* Claims about concat_map_upstream_databases
\* ------------------------------------------------------------------------
MapPast(labels) == pc \in labels

AfterGroup ==
    {"map:grouped", "map:merged", "map:filtered", "map:converted", "map:returned"}

AfterMerge == {"map:merged", "map:filtered", "map:converted", "map:returned"}

\* C1: grouping is amount-additive: for every combination of grouping-key
\* values that occurs in the prepared input rows (a null unit counting as
\* "<blank>"), the grouped table holds exactly one row with that key, and its
\* amount is the sum of the amounts of all input rows with that key.
C1_GroupingAdditive ==
    [][Group =>
        \A i \in 1..Len(upstream_df) :
            LET k == GroupKey(groupby_cols, upstream_df[i])
                same == {j \in 1..Len(upstream_df) :
                            GroupKey(groupby_cols, upstream_df[j]) = k}
                rows == {g \in 1..Len(upstream_df_grp') :
                            GroupKey(groupby_cols, upstream_df_grp'[g]) = k}
            IN /\ Cardinality(rows) = 1
               /\ \A g \in rows :
                    upstream_df_grp'[g].FlowAmount =
                        SumOver([j \in same |-> upstream_df[j].FlowAmount], same)]_vars

\* Scenario A: the first table holds the row CO2 / air, the second the row
\* "co2 " / Air, for the same plant and stage
ScenarioA ==
    /\ Len(arg[1]) = 1 /\ Len(arg[2]) = 1
    /\ arg[1][1].FlowName = CO2 /\ arg[1][1].Compartment = air
    /\ arg[2][1].FlowName = co2_sp /\ arg[2][1].Compartment = Air
    /\ notnull(arg[1][1].Unit) /\ notnull(arg[2][1].Unit)
    /\ arg[1][1].plant_id = arg[2][1].plant_id
    /\ arg[1][1].stage_code = arg[2][1].stage_code

C3_UnmatchedIsDifference ==
    (pc = "map:returned" /\ group_name) =>
        \A p \in UniqueOrig(upstream_df) :
            (p \in Range(unmatched_list)) <=>
                ~ \E m \in Range(matched_list) : m[1] = p[1] /\ m[2] = p[2]

\* the merged rows that come from grouped row g
MappedOf(g) == {i \in 1..Len(upstream_mapped_df) : upstream_mapped_df[i].grp = g}

TargetTuple(r) == <<r.FlowName, r.FlowUUID, r.Compartment, r.Unit, r.ConversionFactor>>

\* C4 as claimed: the left join yields exactly one mapped row per grouped row.
C4_OneMappedRowPerGroupedRow ==
    pc = "map:merged" =>
        \A g \in 1..Len(upstream_df_grp) : Cardinality(MappedOf(g)) = 1

\* no two entries of the mapping share the lower-cased source flow name and
\* the source context
MappingKeysUnique ==
    \A i, j \in 1..Len(fedefl) :
        (/\ str_lower(fedefl[i].SourceFlowName) = str_lower(fedefl[j].SourceFlowName)
         /\ fedefl[i].SourceFlowContext = fedefl[j].SourceFlowContext) => i = j

\* C4 as amended: the left join yields one mapped row per mapping entry
\* whose lower-cased source flow name and source context equal the grouped
\* row's normalized pair (one row of null targets when there is none);
\* grouped rows with the same pair get the same target tuples; and when no
\* two mapping entries share that key, every grouped row gets one mapped row.
C4_OneMappedRowPerMatchingEntry ==
    pc = "map:merged" =>
        /\ \A g \in 1..Len(upstream_df_grp) :
            LET n == Cardinality({e \in 1..Len(fedefl) :
                        /\ str_lower(fedefl[e].SourceFlowName) = upstream_df_grp[g].FlowName
                        /\ fedefl[e].SourceFlowContext = upstream_df_grp[g].Compartment_path})
            IN /\ Cardinality(MappedOf(g)) = IF n = 0 THEN 1 ELSE n
               /\ MappingKeysUnique => Cardinality(MappedOf(g)) = 1
        /\ \A g, h \in 1..Len(upstream_df_grp) :
            (/\ upstream_df_grp[g].FlowName = upstream_df_grp[h].FlowName
             /\ upstream_df_grp[g].Compartment_path = upstream_df_grp[h].Compartment_path)
            => {TargetTuple(upstream_mapped_df[i]) : i \in MappedOf(g)}
                = {TargetTuple(upstream_mapped_df[i]) : i \in MappedOf(h)}

C4_Witness ==
    /\ pc = "map:merged"
    /\ MappingKeysUnique
    /\ Len(fedefl) = 2
    /\ Len(upstream_df_grp) = 2
    /\ upstream_df_grp[1].FlowName_orig # upstream_df_grp[2].FlowName_orig
    /\ \A i \in 1..Len(upstream_mapped_df) : notnull(upstream_mapped_df[i].FlowName)

\* C5: every returned row's amount is the summed amount of its group times
\* the conversion factor of the mapping entry it was joined to, once.
C5_ConversionLinear ==
    pc = "map:returned" =>
        /\ Len(returned) = Len(upstream_mapped_df)
        /\ \A i \in 1..Len(returned) :
            LET g == upstream_df_grp[returned[i].grp]
            IN \E e \in 1..Len(fedefl) :
                /\ str_lower(fedefl[e].SourceFlowName) = g.FlowName
                /\ fedefl[e].SourceFlowContext = g.Compartment_path
                /\ fedefl[e].TargetFlowName = returned[i].FlowName
                /\ fedefl[e].ConversionFactor = upstream_mapped_df[i].ConversionFactor
                /\ returned[i].FlowAmount = g.FlowAmount * fedefl[e].ConversionFactor

C5_Witness ==
    /\ pc = "map:returned"
    /\ \E i \in 1..Len(returned) :
        /\ upstream_df_grp[returned[i].grp].FlowAmount = 3
        /\ returned[i].FlowAmount = 6

\* C6: no returned row has a null flow name, in normal and diagnostics mode.
C6_NoNullFlowName ==
    pc = "map:returned" => \A i \in 1..Len(returned) : notnull(returned[i].FlowName)

C6_Witness ==
    /\ pc = "map:returned"
    /\ group_name
    /\ Len(returned) = 1
    /\ Len(upstream_df_grp) = 2
    /\ \E g \in 1..2 : \A i \in 1..Len(returned) : returned[i].grp # g

\* C18: in the returned table the key (plant id, stage code, flow name,
\* compartment path) is unique: no two returned rows share it.
C18_ReturnedKeyUnique ==
    pc = "map:returned" =>
        \A i, j \in 1..Len(returned) :
            (/\ returned[i].plant_id = returned[j].plant_id
             /\ returned[i].stage_code = returned[j].stage_code
             /\ returned[i].FlowName = returned[j].FlowName
             /\ returned[i].Compartment_path = returned[j].Compartment_path) => i = j

\* C19: the join compares lower-cased values on both key fields: a grouped
\* row is joined to every mapping entry whose source flow name and source
\* context, lower-cased, equal the row's normalized flow name and
\* compartment path, in whatever letter case the mapping stores them.
C19_JoinLowerCasesBothKeys ==
    pc = "map:merged" =>
        \A g \in 1..Len(upstream_df_grp) :
            \A e \in 1..Len(fedefl) :
                (/\ str_lower(fedefl[e].SourceFlowName) = upstream_df_grp[g].FlowName
                 /\ str_lower(fedefl[e].SourceFlowContext) = upstream_df_grp[g].Compartment_path)
                => \E i \in MappedOf(g) :
                      /\ upstream_mapped_df[i].FlowName = fedefl[e].TargetFlowName
                      /\ upstream_mapped_df[i].FlowUUID = fedefl[e].TargetFlowUUID

\* ------------------------------------------------------------------------
\* fill_nans, step by step
\* ------------------------------------------------------------------------
InitFill ==
    /\ pc = "fill:start"
    /\ IdleMap
    /\ IdleComb
    /\ IdleFuel
    /\ IdleSer
    /\ df \in FillTables
    /\ df_in = df
    /\ key_column = "FacilityID"
    /\ target_columns \in TargetChoices
    /\ dropna \in BOOLEAN
    /\ confirmed_target = <<>>
    /\ col_i = 1

\* lines 67-91 with the key column present
FillCheck ==
    /\ pc = "fill:start"
    /\ key_column \in df.columns
    /\ confirmed_target' = ConfirmedTarget(df, target_columns)
    /\ pc' = "fill:loop"
    /\ UNCHANGED << mapvars, combvars, fuelvars, servars, df, df_in, key_column,
                    target_columns, dropna, col_i >>

\* mutant: the key column is checked after the State column was added
FillKeyError_late ==
    /\ pc = "fill:start"
    /\ key_column \notin df.columns
    /\ confirmed_target' = ConfirmedTarget(df, target_columns)
    /\ df' = AddStateColumn(df)
    /\ pc' = "fill:KeyError"
    /\ UNCHANGED << mapvars, combvars, fuelvars, servars, df_in, key_column,
                    target_columns, dropna, col_i >>

\* lines 87-91: raise KeyError
FillKeyError ==
    /\ pc = "fill:start"
    /\ key_column \notin df.columns
    /\ confirmed_target' = ConfirmedTarget(df, target_columns)
    /\ pc' = "fill:KeyError"
    /\ UNCHANGED << mapvars, combvars, fuelvars, servars, df, df_in, key_column,
                    target_columns, dropna, col_i >>

\* lines 97-106, one column
FillLoop ==
    /\ pc = "fill:loop"
    /\ col_i <= Len(confirmed_target)
    /\ df' = FillColumn(df, key_column, confirmed_target[col_i])
    /\ col_i' = col_i + 1
    /\ UNCHANGED << pc, mapvars, combvars, fuelvars, servars, df_in, key_column,
                    target_columns, dropna,
                    confirmed_target >>

\* lines 107-114
FillStateFallback ==
    /\ pc = "fill:loop"
    /\ col_i > Len(confirmed_target)
    /\ df' = FillState(AddStateColumn(df))
    /\ confirmed_target' = WithState(df, confirmed_target)
    /\ pc' = "fill:state"
    /\ UNCHANGED << mapvars, combvars, fuelvars, servars, df_in, key_column,
                    target_columns, dropna, col_i >>

\* lines 115-117
FillReturn ==
    /\ pc = "fill:state"
    /\ df' = IF dropna THEN DropNaRows(df, confirmed_target) ELSE df
    /\ pc' = "fill:returned"
    /\ UNCHANGED << mapvars, combvars, fuelvars, servars, df_in, key_column,
                    target_columns, dropna,
                    confirmed_target, col_i >>

NextFill ==
    \/ FillCheck
    \/ FillKeyError
    \/ FillLoop
    \/ FillStateFallback
    \/ FillReturn

SpecFill == InitFill /\ [][NextFill]_vars

\* ------------------------------------------------------------------------
\* Claims about fill_nans
\* ------------------------------------------------------------------------
\* the row as it was passed to fill_nans
Orig(r) == df_in.rows[r.index]

\* C7: fill only touches nulls: a row whose key and whose cell in a column
\* were both non-null on entry keeps that cell, in every column of the
\* table (State and its fallback fill included), as long as the row is
\* present.
C7_FillOnlyTouchesNulls ==
    pc \in {"fill:loop", "fill:state", "fill:returned"} =>
        \A i \in 1..Len(df.rows) :
            \A c \in df_in.columns :
                (~CellNull(Orig(df.rows[i]), key_column) /\ ~CellNull(Orig(df.rows[i]), c))
                    => df.rows[i][c] = Orig(df.rows[i])[c]

C7_Witness ==
    /\ pc = "fill:returned"
    /\ "State" \in df_in.columns
    /\ \E i, j \in 1..Len(df.rows) :
        /\ Orig(df.rows[i]).State = LA /\ df.rows[i].State = LA
        /\ Orig(df.rows[i]).FuelCategory = GAS
        /\ df.rows[i].FacilityID = df.rows[j].FacilityID
        /\ Orig(df.rows[j]).FuelCategory = NaN /\ df.rows[j].FuelCategory = GAS
    /\ \E i \in 1..Len(df.rows) : Orig(df.rows[i]).State = NaN /\ df.rows[i].State = TX

\* the rows of the passed table that can give key k a value for column c
Donors(k, c) ==
    {i \in 1..Len(df_in.rows) :
        df_in.rows[i][key_column] = k /\ ~CellNull(df_in.rows[i], c)}

\* C8: completeness: for every key value and every target column present in
\* the table, if some row with that key had a non-null value in the column,
\* then after fill_nans no row with that key has a null there, and a filled
\* cell holds the value of the first such row in table order.
C8_FillComplete ==
    pc = "fill:returned" =>
        \A i \in 1..Len(df.rows) :
            \A c \in Range(ConfirmedTarget(df_in, target_columns)) :
                LET k == df.rows[i][key_column]
                    donors == Donors(k, c)
                IN (k # Null(key_column) /\ donors # {}) =>
                     /\ ~CellNull(df.rows[i], c)
                     /\ CellNull(Orig(df.rows[i]), c) =>
                          df.rows[i][c] =
                            df_in.rows[CHOOSE d \in donors : \A e \in donors : d <= e][c]

C8_Witness ==
    /\ pc = "fill:returned"
    /\ \E i \in 1..Len(df.rows) :
        /\ Orig(df.rows[i]).FuelCategory = NaN
        /\ df.rows[i].FuelCategory = GAS
        /\ \E d, e \in Donors(df.rows[i].FacilityID, "FuelCategory") :
            /\ d < e
            /\ df_in.rows[d].FuelCategory = GAS
            /\ df_in.rows[e].FuelCategory = COAL

\* C9: when the key column is absent, fill_nans raises KeyError before it
\* changes anything: the function never enters the fill loop and the table
\* stays as passed (no cell filled, no State column added, no row dropped).
C9_KeyErrorNoPartialResult ==
    key_column \notin df_in.columns =>
        /\ pc \in {"fill:start", "fill:KeyError"}
        /\ df = df_in

C9_Witness ==
    /\ pc = "fill:KeyError"
    /\ "State" \notin df.columns
    /\ Len(confirmed_target) < Len(default_target_columns)
    /\ \E i, j \in 1..Len(df.rows) :
        df.rows[i].FuelCategory = NaN /\ df.rows[j].FuelCategory = COAL

\* ------------------------------------------------------------------------
\* concat_clean_upstream_and_plant, step by step
\* ------------------------------------------------------------------------
InitComb ==
    /\ pc = "comb:start"
    /\ IdleMap
    /\ IdleFill
    /\ IdleFuel
    /\ IdleSer
    /\ \E t \in CombInputs : pl_df = t[1] /\ up_df = t[2]
    /\ up_merged = <<>>
    /\ combined_df = EmptyDf
    /\ keep_mixed_plant_category \in BOOLEAN
    /\ min_plant_percent \in Thresholds

\* lines 336-341
CombMerge ==
    /\ pc = "comb:start"
    /\ up_merged' = MergeRegions(up_df, pl_df)
    /\ pc' = "comb:merged"
    /\ UNCHANGED << mapvars, fillvars, fuelvars, servars, pl_df, up_df, combined_df,
                    keep_mixed_plant_category, min_plant_percent >>

\* lines 343-364
CombConcat ==
    /\ pc = "comb:merged"
    /\ combined_df' = DeleteAndKey(MapRegionNames(ConcatPlantUpstream(pl_df, up_merged)))
    /\ pc' = "comb:combined"
    /\ UNCHANGED << mapvars, fillvars, fuelvars, servars, pl_df, up_df, up_merged,
                    keep_mixed_plant_category, min_plant_percent >>

\* lines 369-376
CombNullFuel ==
    /\ pc = "comb:combined"
    /\ combined_df' = NullFuelCategories(combined_df)
    /\ pc' = "comb:nulled"
    /\ UNCHANGED << mapvars, fillvars, fuelvars, servars, pl_df, up_df, up_merged,
                    keep_mixed_plant_category, min_plant_percent >>

\* line 377
CombFill ==
    /\ pc = "comb:nulled"
    /\ combined_df' = FillNans(combined_df, "FacilityID", <<>>, TRUE)
    /\ pc' = "comb:filled"
    /\ UNCHANGED << mapvars, fillvars, fuelvars, servars, pl_df, up_df, up_merged,
                    keep_mixed_plant_category, min_plant_percent >>

\* lines 381-390
CombPolicy ==
    /\ pc = "comb:filled"
    /\ combined_df' = MixedPolicy(combined_df, keep_mixed_plant_category, min_plant_percent)
    /\ pc' = "comb:returned"
    /\ UNCHANGED << mapvars, fillvars, fuelvars, servars, pl_df, up_df, up_merged,
                    keep_mixed_plant_category, min_plant_percent >>

NextComb ==
    \/ CombMerge
    \/ CombConcat
    \/ CombNullFuel
    \/ CombFill
    \/ CombPolicy

SpecComb == InitComb /\ [][NextComb]_vars

\* ------------------------------------------------------------------------
\* Claims about concat_clean_upstream_and_plant
\* ------------------------------------------------------------------------
\* Scenario B: the combined row r entered as an upstream row with
\* FuelCategory "CONSTRUCTION" and stage_code "Upstream construction"
ScenarioB(r) ==
    /\ r.origin > 0
    /\ up_df[r.origin].FuelCategory = CONSTRUCTION
    /\ up_df[r.origin].stage_code = Upstream_construction

\* C10 as claimed: the scenario B row is nulled by the Combiner and the fill
\* run inside the Combiner does not give it a fuel category again: its
\* FuelCategory is null from the nulling on, the returned table included.
C10_ConstructionStaysNull ==
    pc \in {"comb:nulled", "comb:filled", "comb:returned"} =>
        \A i \in 1..Len(combined_df.rows) :
            ScenarioB(combined_df.rows[i]) => combined_df.rows[i].FuelCategory = NaN

IsFuel(f) == f # NaN /\ f # CONSTRUCTION

\* the fuel categories fill_nans can take for plant p, in table order: those
\* of the "Power plant" rows of the plant that are neither null nor
\* "CONSTRUCTION", the generation table first
DonorFuels(p) ==
    LET pl == SelectRows(pl_df, {i \in 1..Len(pl_df) :
                  pl_df[i].eGRID_ID = p /\ IsFuel(pl_df[i].FuelCategory)})
        up == SelectRows(up_df, {j \in 1..Len(up_df) :
                  /\ up_df[j].plant_id = p
                  /\ up_df[j].stage_code = Power_plant
                  /\ IsFuel(up_df[j].FuelCategory)
                  /\ \E i \in 1..Len(pl_df) : pl_df[i].eGRID_ID = p})
    IN [i \in 1..Len(pl) |-> pl[i].FuelCategory]
          \o [j \in 1..Len(up) |-> up[j].FuelCategory]

\* C10 as amended: the scenario B row is nulled by the Combiner before the
\* fill; the fill run inside the Combiner then gives it the fuel category of
\* the first "Power plant" row of its facility whose fuel category is
\* neither null nor "CONSTRUCTION" (the mixed-plant policy may relabel it
\* "MIXED" afterwards), and drops the row when the facility has no such
\* row: in the returned table its FuelCategory is never null and never
\* "CONSTRUCTION".
C10_ConstructionNulledThenFilled ==
    /\ pc = "comb:nulled" =>
        /\ \A i \in 1..Len(combined_df.rows) :
            ScenarioB(combined_df.rows[i]) => combined_df.rows[i].FuelCategory = NaN
        /\ \A j \in 1..Len(up_df) :
            \E i \in 1..Len(combined_df.rows) : combined_df.rows[i].origin = j
    /\ pc \in {"comb:filled", "comb:returned"} =>
        \A i \in 1..Len(combined_df.rows) :
            LET r == combined_df.rows[i]
                donors == DonorFuels(up_df[r.origin].plant_id)
            IN ScenarioB(r) =>
                /\ donors # <<>>
                /\ IsFuel(r.FuelCategory)
                /\ r.FuelCategory =
                      IF /\ pc = "comb:returned"
                         /\ keep_mixed_plant_category
                         /\ generation_filter(r, min_plant_percent)
                      THEN MIXED
                      ELSE donors[1]

C10_Witness ==
    /\ pc = "comb:returned"
    /\ \E i \in 1..Len(combined_df.rows) :
        /\ ScenarioB(combined_df.rows[i])
        /\ combined_df.rows[i].FuelCategory = GAS
        /\ Len(DonorFuels(combined_df.rows[i].FacilityID)) = 2

\* the share of generation from the primary fuel category that the
\* generation table records for plant p is below the configured threshold
BelowThreshold(p) ==
    \E k \in 1..Len(pl_df) :
        pl_df[k].eGRID_ID = p /\ pl_df[k][Percent] < min_plant_percent

\* C11: the mixed-plant policy (lines 381-390) treats the rows plant by
\* plant. Every row of a plant whose share is below the threshold (scenario
\* C: 40 against 50) is, when keep_mixed_plant_category is set, kept with
\* FuelCategory "MIXED" and PrimaryFuel "Mixed Fuel Type" and otherwise
\* removed; every row of a plant at or above the threshold is returned as it
\* was, neither relabelled nor dropped.
C11_MixedPlantPolicy ==
    [][CombPolicy =>
        \A i \in 1..Len(combined_df.rows) :
            LET r == combined_df.rows[i]
                after == SelectRows(combined_df'.rows,
                            {j \in 1..Len(combined_df'.rows) :
                                combined_df'.rows[j].index = r.index})
            IN IF BelowThreshold(r.FacilityID)
               THEN IF keep_mixed_plant_category
                    THEN /\ Len(after) = 1
                         /\ after[1].FuelCategory = MIXED
                         /\ after[1].PrimaryFuel = Mixed_Fuel_Type
                         /\ \A c \in DOMAIN r \ {"FuelCategory", "PrimaryFuel"} :
                                after[1][c] = r[c]
                    ELSE after = <<>>
               ELSE after = <<r>>]_vars

C11_Witness ==
    /\ pc = "comb:returned"
    /\ keep_mixed_plant_category
    /\ min_plant_percent = 50
    /\ \E i, j \in 1..Len(combined_df.rows) :
        /\ combined_df.rows[i].FacilityID = 1
        /\ combined_df.rows[i].origin > 0
        /\ combined_df.rows[i].FuelCategory = MIXED
        /\ combined_df.rows[i].PrimaryFuel = Mixed_Fuel_Type
        /\ combined_df.rows[j].FacilityID = 2
        /\ combined_df.rows[j].FuelCategory = COAL

\* C20: with the default drop-on-incomplete fill (line 377), every returned
\* row whose stage code is not "Power plant" belongs to a facility that has
\* a "Power plant" row with a fuel category that is neither null nor
\* "CONSTRUCTION"; the upstream rows of a facility without such a row are
\* not in the returned table.
C20_UpstreamNeedsPowerPlant ==
    pc = "comb:returned" =>
        /\ \A i \in 1..Len(combined_df.rows) :
            combined_df.rows[i].stage_code # Power_plant =>
                DonorFuels(combined_df.rows[i].FacilityID) # <<>>
        /\ \A j \in 1..Len(up_df) :
            (up_df[j].stage_code # Power_plant /\ DonorFuels(up_df[j].plant_id) = <<>>) =>
                \A i \in 1..Len(combined_df.rows) : combined_df.rows[i].origin # j

C20_Witness ==
    /\ pc = "comb:returned"
    /\ \E i \in 1..Len(combined_df.rows) :
        /\ combined_df.rows[i].stage_code = Extraction
        /\ combined_df.rows[i].FuelCategory = COAL
    /\ \E j \in 1..Len(up_df) :
        /\ up_df[j].stage_code = Extraction
        /\ DonorFuels(up_df[j].plant_id) = <<>>
        /\ \A i \in 1..Len(combined_df.rows) : combined_df.rows[i].origin # j

\* ------------------------------------------------------------------------
\* add_fuel_inputs, step by step
\* ------------------------------------------------------------------------
InitFuel ==
    /\ pc = "fuel:start"
    /\ IdleMap
    /\ IdleFill
    /\ IdleComb
    /\ IdleSer
    /\ \E t \in FuelInputs : gen_df = t[1] /\ upstream_df_fuel = t[2]
    /\ upstream_dict \in UpstreamDicts
    /\ upstream_reduced = <<>>
    /\ fuel_df = <<>>
    /\ gen_plus_up_df = EmptyDf

\* lines 419-421
FuelReduce ==
    /\ pc = "fuel:start"
    /\ upstream_reduced' = UpstreamReduced(upstream_df_fuel)
    /\ pc' = "fuel:reduced"
    /\ UNCHANGED << mapvars, fillvars, combvars, servars, gen_df, upstream_df_fuel,
                    upstream_dict, fuel_df, gen_plus_up_df >>

\* line 434 raises KeyError: the function returns nothing
FuelKeyError ==
    /\ pc = "fuel:reduced"
    /\ NoDescriptorColumns(upstream_reduced, upstream_dict)
    /\ pc' = "fuel:KeyError"
    /\ UNCHANGED << mapvars, fillvars, combvars, fuelvars, servars >>

\* lines 422-452
FuelSynthesize ==
    /\ pc = "fuel:reduced"
    /\ ~NoDescriptorColumns(upstream_reduced, upstream_dict)
    /\ fuel_df' = SynthesizeFuel(upstream_reduced, upstream_dict)
    /\ pc' = "fuel:synthesized"
    /\ UNCHANGED << mapvars, fillvars, combvars, servars, gen_df, upstream_df_fuel,
                    upstream_dict, upstream_reduced, gen_plus_up_df >>

\* lines 453-462
FuelMerge ==
    /\ pc = "fuel:synthesized"
    /\ fuel_df' = MergeGen(fuel_df, gen_df)
    /\ pc' = "fuel:merged"
    /\ UNCHANGED << mapvars, fillvars, combvars, servars, gen_df, upstream_df_fuel,
                    upstream_dict, upstream_reduced, gen_plus_up_df >>

\* line 463
FuelDrop ==
    /\ pc = "fuel:merged"
    /\ fuel_df' = DropNoElectricity(fuel_df)
    /\ pc' = "fuel:dropped"
    /\ UNCHANGED << mapvars, fillvars, combvars, servars, gen_df, upstream_df_fuel,
                    upstream_dict, upstream_reduced, gen_plus_up_df >>

\* lines 464-478
FuelScore ==
    /\ pc = "fuel:dropped"
    /\ fuel_df' = [i \in 1..Len(fuel_df) |-> ScoreRow(fuel_df[i], gen_df)]
    /\ pc' = "fuel:scored"
    /\ UNCHANGED << mapvars, fillvars, combvars, servars, gen_df, upstream_df_fuel,
                    upstream_dict, upstream_reduced, gen_plus_up_df >>

\* lines 479-480
FuelConcatFill ==
    /\ pc = "fuel:scored"
    /\ gen_plus_up_df' = FillNans(ConcatGenFuel(gen_df, fuel_df), "FacilityID", <<>>, TRUE)
    /\ pc' = "fuel:filled"
    /\ UNCHANGED << mapvars, fillvars, combvars, servars, gen_df, upstream_df_fuel,
                    upstream_dict, upstream_reduced, fuel_df >>

\* lines 484-489
FuelReturn ==
    /\ pc = "fuel:filled"
    /\ gen_plus_up_df' = ExcludeNBSO(gen_plus_up_df)
    /\ pc' = "fuel:returned"
    /\ UNCHANGED << mapvars, fillvars, combvars, servars, gen_df, upstream_df_fuel,
                    upstream_dict, upstream_reduced, fuel_df >>

NextFuel ==
    \/ FuelReduce
    \/ FuelKeyError
    \/ FuelSynthesize
    \/ FuelMerge
    \/ FuelDrop
    \/ FuelScore
    \/ FuelConcatFill
    \/ FuelReturn

SpecFuel == InitFuel /\ [][NextFuel]_vars

\* ------------------------------------------------------------------------
\* Claims about add_fuel_inputs
\* ------------------------------------------------------------------------
\* the synthesized row of the k-th row of upstream_reduced is in fuel_df
FuelRowKept(k) ==
    \E i \in 1..Len(fuel_df) : fuel_df[i].origin = upstream_reduced[k].origin

\* C12 as claimed: after line 463 a synthesized fuel-input row is kept
\* exactly when some generation row of its facility has a non-null
\* Electricity; the rows of facilities that are absent from the generation
\* table, or have no non-null Electricity there, are dropped.
C12_DroppedIffNoElectricityAnywhere ==
    pc = "fuel:dropped" =>
        \A k \in 1..Len(upstream_reduced) :
            FuelRowKept(k) <=>
                \E i \in 1..Len(gen_df) :
                    /\ gen_df[i].eGRID_ID = upstream_reduced[k].plant_id
                    /\ gen_df[i].Electricity # NaNNum

\* C12 as amended: after line 463 a synthesized fuel-input row is kept
\* exactly when the first generation row of its facility, in table order,
\* has a non-null Electricity; the rows of facilities that are absent from
\* the generation table, or whose first generation row has a null
\* Electricity, are dropped, whatever the later rows of the facility hold.
C12_DroppedIffFirstRowNoElectricity ==
    pc = "fuel:dropped" =>
        \A k \in 1..Len(upstream_reduced) :
            FuelRowKept(k) <=>
                \E i \in 1..Len(gen_df) :
                    /\ gen_df[i].eGRID_ID = upstream_reduced[k].plant_id
                    /\ \A j \in 1..(i - 1) : gen_df[j].eGRID_ID # gen_df[i].eGRID_ID
                    /\ gen_df[i].Electricity # NaNNum

C12_Witness ==
    /\ pc = "fuel:dropped"
    /\ Len(gen_df) = 2
    /\ gen_df[1].eGRID_ID = 1 /\ gen_df[1].Electricity = NaNNum
    /\ gen_df[2].eGRID_ID = 1 /\ gen_df[2].Electricity = 100
    /\ Len(upstream_reduced) = 1
    /\ upstream_reduced[1].plant_id = 1
    /\ fuel_df = <<>>

\* ------------------------------------------------------------------------
\* write_upstream_dicts_to_jsonld -> write_process_dicts_to_jsonld -> write
\* ------------------------------------------------------------------------
InitSer ==
    /\ pc = "ser:idle"
    /\ IdleMap
    /\ IdleFill
    /\ IdleComb
    /\ IdleFuel
    /\ IdleSer

\* __init__.py lines 185-188 and writer lines 10-11: a call begins, with a
\* new writer and a new created_ids
SerCall ==
    /\ pc \in {"ser:idle", "ser:returned"}
    /\ all_process_dicts' \in ProcessLists
    /\ proc_i' = 1
    /\ written' = <<>>
    /\ created_ids' = {}
    /\ olca_dicts' = None
    /\ prev_written' = Range(written)
    /\ pc' = "ser:writing"
    /\ UNCHANGED << mapvars, fillvars, combvars, fuelvars >>

\* writer lines 12-31: one turn of the loop over processes.values()
SerWriteProcess ==
    /\ pc = "ser:writing"
    /\ proc_i <= Len(all_process_dicts)
    /\ written' = written \o ProcessRecords(all_process_dicts[proc_i], created_ids)
    /\ created_ids' = created_ids \cup CategoryUids(all_process_dicts[proc_i].category)
    /\ proc_i' = proc_i + 1
    /\ UNCHANGED << pc, mapvars, fillvars, combvars, fuelvars, all_process_dicts,
                    olca_dicts, prev_written >>

\* write has no return statement: it returns None, which __init__.py lines
\* 188-190 and 246-247 hand on
SerReturn ==
    /\ pc = "ser:writing"
    /\ proc_i > Len(all_process_dicts)
    /\ olca_dicts' = None
    /\ pc' = "ser:returned"
    /\ UNCHANGED << mapvars, fillvars, combvars, fuelvars, all_process_dicts,
                    proc_i, written, created_ids, prev_written >>

NextSer ==
    \/ SerCall
    \/ SerWriteProcess
    \/ SerReturn

SpecSer == InitSer /\ [][NextSer]_vars

\* ------------------------------------------------------------------------
\* Claims about the serializer
\* ------------------------------------------------------------------------
\* the positions in w of the records of a type
RecordsOf(w, type) == {k \in 1..Len(w) : w[k].type = type}

\* C13: the value write_upstream_dicts_to_jsonld returns is the dictionary
\* of the upstream unit processes with the identifiers the serializer gave
\* them: one entry per process dict, with the identifier of the Process
\* record written for it.
C13_ReturnsDictWithIds ==
    pc = "ser:returned" =>
        /\ olca_dicts # None
        /\ Len(olca_dicts[1]) = Len(all_process_dicts)
        /\ \A i \in 1..Len(all_process_dicts) :
            \E k \in RecordsOf(written, "Process") :
                /\ written[k].src = <<all_process_dicts[i]>>
                /\ olca_dicts[1][i].id = written[k].id

\* C14: within one call of write every category path prefix of the
\* processes (prefixes told apart by their identifier) is written as a
\* Category record exactly once, never twice, whatever the processes and
\* their order; created_ids is empty when a call begins, so a category
\* written by the call before is written again.
C14_CategoryWrittenOnce ==
    /\ \A k, m \in RecordsOf(written, "Category") : written[k].id = written[m].id => k = m
    /\ (pc = "ser:writing" /\ proc_i = 1) => created_ids = {}
    /\ \A i \in 1..(proc_i - 1) :
        \A u \in CategoryUids(all_process_dicts[i].category) :
            /\ u \in created_ids
            /\ Cardinality({k \in RecordsOf(written, "Category") : written[k].id = u}) = 1

C14_Witness ==
    /\ pc = "ser:returned"
    /\ Len(all_process_dicts) = 2
    /\ all_process_dicts[1].category = <<"A", "/", "B">>
    /\ all_process_dicts[2].category = <<"A", "/", "C">>
    /\ Cardinality(RecordsOf(written, "Category")) = 3
    /\ \E r \in prev_written :
        r.type = "Category" /\ r.id = CategoryUid(<<<<"A">>>>, 1)

\* the Process records of this call and of the call before
AllProcessRecords ==
    {written[k] : k \in RecordsOf(written, "Process")}
        \cup {r \in prev_written : r.type = "Process"}

\* C15: the identifier of a process depends only on the model-type tag,
\* the lower-cased category path and the lower-cased name: two Process
\* records, of one call or of two, whose dicts agree on these have the same
\* identifier, whatever else the dicts and the calls hold.
C15_IdDeterministic ==
    \A r1, r2 \in AllProcessRecords :
        (/\ str_lower(Str(r1.src[1].category)) = str_lower(Str(r2.src[1].category))
         /\ str_lower(Str(r1.src[1].name)) = str_lower(Str(r2.src[1].name)))
        => r1.id = r2.id

C15_Witness ==
    /\ pc = "ser:returned"
    /\ \E k \in RecordsOf(written, "Process") :
        /\ written[k].name = <<"P">>
        /\ written[k].src[1].category = <<"A", "/", "B">>
        /\ \E m \in RecordsOf(written, "Process") :
            /\ written[m].name = <<"p">>
            /\ written[m].id = written[k].id
        /\ \E r \in prev_written :
            /\ r.type = "Process"
            /\ r.src = written[k].src
            /\ r.id = written[k].id
        /\ \E r \in prev_written : r \notin Range(written)

\* the positions of the entries of an exchange list that are not null
NonNull(es) == {i \in 1..Len(es) : es[i] # None}

\* C16: the exchanges of every written process are the non-null entries of
\* its exchange list in the order of the list, numbered 1, 2, ..., k without
\* a gap; a null entry takes no number, and every process starts at 1.
C16_ExchangesNumbered ==
    \A k \in RecordsOf(written, "Process") :
        LET es == written[k].src[1].exchanges
            xs == written[k].exchanges
        IN /\ Len(xs) = Cardinality(NonNull(es))
           /\ \A j \in 1..Len(xs) :
                /\ xs[j].internal_id = j
                /\ xs[j].pos \in NonNull(es)
                /\ xs[j].amount = es[xs[j].pos][1].amount
                /\ j = Cardinality({i \in NonNull(es) : i <= xs[j].pos})

C16_Witness ==
    /\ pc = "ser:returned"
    /\ Len(all_process_dicts) = 2
    /\ \A k \in RecordsOf(written, "Process") :
        /\ Len(written[k].exchanges) = 2
        /\ Len(written[k].src[1].exchanges) = 3
        /\ written[k].exchanges[2].internal_id = 2
        /\ written[k].exchanges[2].pos = 3
    /\ written[Len(written)].src[1].exchanges[1] = None

KnownUnits == {MWh, MJ, kg}

\* C17: an exchange whose unit name is none of MWh, MJ and kg, or is
\* missing, gets no unit reference and no flow-property reference and is
\* still appended with its sequential identifier; its process and every
\* later process are written.
C17_UnknownUnitRecoverable ==
    /\ \A k \in RecordsOf(written, "Process") :
        LET es == written[k].src[1].exchanges
            xs == written[k].exchanges
        IN \A i \in NonNull(es) :
            es[i][1].unit_name \notin KnownUnits =>
                \E j \in 1..Len(xs) :
                    /\ xs[j].pos = i
                    /\ xs[j].unit = None
                    /\ xs[j].flow_property = None
                    /\ xs[j].internal_id = Cardinality({m \in NonNull(es) : m <= i})
    /\ \A i \in 1..(proc_i - 1) :
        Cardinality({k \in RecordsOf(written, "Process") :
                        written[k].src = <<all_process_dicts[i]>>}) >= 1
    /\ Cardinality(RecordsOf(written, "Process")) = proc_i - 1
    /\ pc = "ser:returned" => proc_i - 1 = Len(all_process_dicts)

C17_Witness ==
    /\ pc = "ser:returned"
    /\ Len(all_process_dicts) = 2
    /\ ExchangeDict(TRUE, 3, NoneText) \in Range(all_process_dicts[1].exchanges)
    /\ ExchangeDict(TRUE, 6, lb) \in Range(all_process_dicts[2].exchanges)
    /\ Cardinality(RecordsOf(written, "Process")) = 2
    /\ \A k \in RecordsOf(written, "Process") :
        \E j \in 1..Len(written[k].exchanges) : written[k].exchanges[j].unit = None

====
